---- MODULE Spec2Model ----
(***************************************************************************)
(* Plasma-etch prediction engine and its Express routes                    *)
(* (src/server/routes.ts, src/shared/schema.ts).                           *)
(*                                                                         *)
(* JavaScript numbers are modelled in fixed point: a real v is the integer *)
(* v * 10^6 ("micro" units).  Math.exp, Math.sin, Math.log10 and Math.sqrt *)
(* are computed by series to that resolution; Number(x.toFixed(d)) rounds  *)
(* to 10^(6-d) micro units.  Math.random() is a draw from Draws.           *)
(***************************************************************************)
EXTENDS Integers, Sequences, FiniteSets, TLC

VARIABLES
    pc,            \* "idle" before the operation under check has run, "done" after
    input,         \* the arguments the operation is applied to
    grid3D,        \* the grid built by the loops of simulateRadicalDistribution
    distribution,  \* the RadicalDistribution returned by simulateRadicalDistribution
    result,        \* the value the operation returned
    store,         \* MemStorage.predictions, in insertion order
    request,       \* the HTTP request last handled by the Express routes
    response,      \* the response sent to it
    calls,         \* number of generatePrediction invocations so far
    nextId,        \* randomUUID(): the next fresh id
    clock          \* new Date(): the current time

vars == <<pc, input, grid3D, distribution, result, store, request, response,
          calls, nextId, clock>>

-----------------------------------------------------------------------------
(* Fixed-point arithmetic                                                  *)

Scale == 1000 * 1000
Half == Scale \div 1000
Milli(n) == n * 1000

Abs(a) == IF a < 0 THEN -a ELSE a
Max(a, b) == IF a >= b THEN a ELSE b
Min(a, b) == IF a <= b THEN a ELSE b

\* a * b of two micro values, in micro units, without leaving 32 bits
Mul(a, b) ==
    LET a1 == a \div Half
        a0 == a % Half
        b1 == b \div Half
        b0 == b % Half
    IN a1 * b1 + ((a1 * b0 + a0 * b1 + ((a0 * b0) \div Half) + Half \div 2) \div Half)

\* a / n for an integer n > 0, rounded to the nearest micro unit
RoundDiv(a, n) == (2 * a + n) \div (2 * n)

RECURSIVE DivDigits(_, _, _, _)
DivDigits(q, r, b, n) ==
    IF n = 0 THEN (IF 2 * r >= b THEN q + 1 ELSE q)
    ELSE DivDigits(q * 10 + ((r * 10) \div b), (r * 10) % b, b, n - 1)

\* a / b of two micro values (b > 0), in micro units
Div(a, b) ==
    IF b > 100 * Scale
    THEN DivDigits(RoundDiv(a, 10) \div RoundDiv(b, 10), RoundDiv(a, 10) % RoundDiv(b, 10),
                   RoundDiv(b, 10), 6)
    ELSE DivDigits(a \div b, a % b, b, 6)

\* Number(v.toFixed(d)): v rounded half away from zero to d decimals
ToFixed(v, d) ==
    LET q == 10 ^ (6 - d)
    IN IF v >= 0 THEN ((v + q \div 2) \div q) * q
       ELSE -(((-v + q \div 2) \div q) * q)

RECURSIVE ExpTerms(_, _, _, _)
ExpTerms(u, term, n, sum) ==
    IF term = 0 \/ n > 16 THEN sum
    ELSE LET t == RoundDiv(Mul(term, u), n)
         IN ExpTerms(u, t, n + 1, sum + t)

\* e^-n in micro units, n = 0..15
ExpNegInt == <<1000000, 367879, 135335, 49787, 18316, 6738, 2479, 912,
               335, 123, 45, 17, 6, 2, 1, 0>>

\* Math.exp(x) for x < 1
Exp(x) ==
    IF x >= 0 THEN ExpTerms(x, Scale, 1, Scale)
    ELSE LET n == (-x) \div Scale
             f == -((-x) % Scale)
         IN IF n > 15 THEN 0
            ELSE Mul(ExpNegInt[n + 1], ExpTerms(f, Scale, 1, Scale))

Pi == 3141593

RECURSIVE SinTerms(_, _, _, _)
SinTerms(x2, term, n, sum) ==
    IF term = 0 \/ n > 25 THEN sum
    ELSE LET t == -RoundDiv(Mul(term, x2), n * (n + 1))
         IN SinTerms(x2, t, n + 2, sum + t)

\* Math.sin(x) for 0 <= x <= 2 pi
Sin(x) ==
    IF x > Pi THEN -SinTerms(Mul(x - Pi, x - Pi), x - Pi, 2, x - Pi)
    ELSE SinTerms(Mul(x, x), x, 2, x)

RECURSIVE SqrtIter(_, _, _)
SqrtIter(v, r, n) ==
    IF n = 0 THEN r
    ELSE SqrtIter(v, RoundDiv(r + Div(v, r), 2), n - 1)

\* Math.sqrt(v)
Sqrt(v) == IF v <= 0 THEN 0 ELSE SqrtIter(v, Max(v, Scale), 12)

RECURSIVE AtanhTerms(_, _, _, _)
AtanhTerms(y2, pow, n, sum) ==
    IF pow = 0 \/ n > 41 THEN sum
    ELSE LET p == Mul(pow, y2)
         IN AtanhTerms(y2, p, n + 2, sum + RoundDiv(p, n))

\* natural logarithm of x for x in [0.3, 3.2]: 2 atanh((x-1)/(x+1))
Ln(x) ==
    LET y == Div(x - Scale, x + Scale)
    IN 2 * AtanhTerms(Mul(y, y), y, 3, y)

Ln10 == 2302585

\* Math.log10(x) for x in [0.03, 32]: one decade of range reduction
Log10(x) ==
    IF x > 3162278 THEN Scale + Div(Ln(x \div 10), Ln10)
    ELSE IF x < 316228 THEN Div(Ln(x * 10), Ln10) - Scale
    ELSE Div(Ln(x), Ln10)

-----------------------------------------------------------------------------
(* simulateRadicalDistribution                                             *)

gridX == 20
gridY == 20
gridZ == 10

\* p.f || d for an optional numeric field
OrDefault(p, f, d) == IF f \in DOMAIN p /\ p[f] # 0 THEN p[f] ELSE d

powerFactor(p) == p.rfPower * (Scale \div 1000)
pressureFactor(p) == p.pressure * (Scale \div 50)
cf4Flow(p) == p.gasFlowCF4 * (Scale \div 100)
arFlow(p) == p.gasFlowAr * (Scale \div 100)
rfHours(p) == OrDefault(p, "chamberRfHours", 0)
\* rfHours / 500
rfHoursRatio(p) == rfHours(p) * (Scale \div 500)
agingFactor(p) == Scale + Mul(rfHoursRatio(p), Milli(500))
agingEdgePenalty(p) == Scale - Mul(rfHoursRatio(p), Milli(300))

baseGeneration(p) ==
    Mul(Mul(powerFactor(p), Scale + Mul(cf4Flow(p), Milli(500))),
        Scale - Mul(pressureFactor(p), Milli(300)))

pulseModulation(p) ==
    IF p.pulseEnabled
    THEN Mul(OrDefault(p, "pulseDutyCycle", 50) * (Scale \div 100),
             Scale + Mul(Log10(OrDefault(p, "pulseFrequency", 1000) * (Scale \div 1000)),
                         Milli(100)))
    ELSE Scale

wallLossCoeff(p) ==
    Mul(Milli(300) + Mul(Scale - pressureFactor(p), Milli(200)), agingFactor(p))

injectionDecayRate(p) ==
    Milli(200) + Mul(Scale - pressureFactor(p), Milli(500)) + Mul(arFlow(p), Milli(150))

radialDecay(p) ==
    Milli(200) + Mul(Scale - pressureFactor(p), Milli(300)) + Mul(powerFactor(p), Milli(200))

\* z = k / (gridZ - 1)
zOf(k) == RoundDiv(k * Scale, gridZ - 1)
heightDiffusion(p, k) == Exp(-Mul(injectionDecayRate(p), Scale - zOf(k)))
waferLoss(k) == Scale - Mul(Milli(150), Exp(-4 * zOf(k)))
rfCouplingProfile(k) == Scale + Mul(Milli(200), Sin(Mul(Pi, zOf(k))))

\* x = (j - gridX / 2) / (gridX / 2), y = (i - gridY / 2) / (gridY / 2)
xOf(j) == ((j - gridX \div 2) * Scale) \div (gridX \div 2)
yOf(i) == ((i - gridY \div 2) * Scale) \div (gridY \div 2)

\* the cell geometry of the inner loops, which does not depend on the parameters
Radius == [i \in 0..gridY - 1 |-> [j \in 0..gridX - 1 |->
              Sqrt(Mul(xOf(j), xOf(j)) + Mul(yOf(i), yOf(i)))]]
RWall == [i \in 0..gridY - 1 |-> [j \in 0..gridX - 1 |->
              Max(Abs(xOf(j)), Abs(yOf(i)))]]
\* 1 - Math.exp(-r * r * 2)
EdgeProfile == [i \in 0..gridY - 1 |-> [j \in 0..gridX - 1 |->
              Scale - Exp(Mul(Mul(-Radius[i][j], Radius[i][j]), 2 * Scale))]]

\* The cells whose noise draw the descriptors single out: the center column,
\* the four wall midpoints, the top layer, the bottom layer, and the rest.
CellClass(k, i, j) ==
    IF i = gridY \div 2 /\ j = gridX \div 2 THEN "center"
    ELSE IF (i \in {0, gridY - 1} /\ j = gridX \div 2)
            \/ (i = gridY \div 2 /\ j \in {0, gridX - 1}) THEN "edge"
    ELSE IF k = gridZ - 1 THEN "top"
    ELSE IF k = 0 THEN "bottom"
    ELSE "bulk"

\* One cell of the loop body: noise[c] is the Math.random() draw of class c
\* variant without the floor
KeepDensity(density) == density

\* Math.max(0.05, density + noise) of line 179
FloorDensity(density) == Max(Milli(50), density)

Density(p, base, pulse, rDecay, wlc, hd, wl, rc, k, i, j, rnd) ==
    LET r == Radius[i][j]
        rWall == RWall[i][j]
        radialProfile == Exp(Mul(Mul(-r, r), rDecay))
        wallLoss == Exp(Mul(Mul(Mul(Mul(-wlc, rWall), rWall), Milli(600)),
                            Scale + Mul(Milli(200), Scale - zOf(k))))
        pressureEdgeBoost ==
            Mul(Mul(Mul(pressureFactor(p), Milli(250)), EdgeProfile[i][j]),
                agingEdgePenalty(p))
        d1 == Mul(Mul(base, pulse),
                  Mul(Mul(Mul(Mul(radialProfile, hd), wl), rc), wallLoss))
        d2 == d1 + Mul(Mul(pressureEdgeBoost, base), hd)
        d3 == IF powerFactor(p) > Milli(1200)
              THEN d2 + Mul(Mul(Mul(Mul(Milli(100), r), r),
                                powerFactor(p) - Milli(1200)), hd)
              ELSE d2
        noise == Mul(Mul(rnd - Scale \div 2, Milli(30)), d3)
    IN ToFixed(FloorDensity(d3 + noise), 4)

\* the loop nest of lines 129-186: grid3D[k][i][j]
SimulateGrid(p, noise) ==
    LET base == baseGeneration(p)
        pulse == pulseModulation(p)
        rDecay == radialDecay(p)
        wlc == wallLossCoeff(p)
    IN [k \in 0..gridZ - 1 |->
          LET hd == heightDiffusion(p, k)
              wl == waferLoss(k)
              rc == rfCouplingProfile(k)
          IN [i \in 0..gridY - 1 |-> [j \in 0..gridX - 1 |->
                Density(p, base, pulse, rDecay, wlc, hd, wl, rc, k, i, j,
                        noise[CellClass(k, i, j)])]]]

RECURSIVE SumRow(_, _)
\* row[0] + ... + row[j], in units of 10^-4 (cells carry 4 decimals)
SumRow(row, j) == IF j < 0 THEN 0 ELSE (row[j] \div 100) + SumRow(row, j - 1)

RECURSIVE SumLayer(_, _)
SumLayer(layer, i) ==
    IF i < 0 THEN 0 ELSE SumRow(layer[i], gridX - 1) + SumLayer(layer, i - 1)

RECURSIVE SumGrid(_, _)
SumGrid(g, k) ==
    IF k < 0 THEN 0 ELSE SumLayer(g[k], gridY - 1) + SumGrid(g, k - 1)

\* sum / n in micro units, for a sum in units of 10^-4
MeanOf(sum, n) == (sum \div n) * 100 + RoundDiv((sum % n) * 100, n)

\* variant that takes the top layer
topZ == gridZ - 1

midZ == gridZ \div 2

centerValue(g) == g[midZ][gridY \div 2][gridX \div 2]

avgEdge(g) ==
    RoundDiv(g[midZ][0][gridX \div 2] + g[midZ][gridY - 1][gridX \div 2]
             + g[midZ][gridY \div 2][0] + g[midZ][gridY \div 2][gridX - 1], 4)

avgBottom(g) == MeanOf(SumLayer(g[0], gridY - 1), gridX * gridY)
avgTop(g) == MeanOf(SumLayer(g[gridZ - 1], gridY - 1), gridX * gridY)

mean3D(g) == MeanOf(SumGrid(g, gridZ - 1), gridX * gridY * gridZ)

RECURSIVE SqRow(_, _, _)
SqRow(row, m, j) ==
    IF j < 0 THEN 0 ELSE Mul(row[j] - m, row[j] - m) + SqRow(row, m, j - 1)

RECURSIVE SqLayer(_, _, _)
SqLayer(layer, m, i) ==
    IF i < 0 THEN 0
    ELSE RoundDiv(SqRow(layer[i], m, gridX - 1), gridX) + SqLayer(layer, m, i - 1)

RECURSIVE SqGrid(_, _, _)
SqGrid(g, m, k) ==
    IF k < 0 THEN 0
    ELSE RoundDiv(SqLayer(g[k], m, gridY - 1), gridY) + SqGrid(g, m, k - 1)

\* sum((v - mean3D)^2) / allValues.length
variance3D(g) == RoundDiv(SqGrid(g, mean3D(g), gridZ - 1), gridZ)

verticalUniformity(g) ==
    ToFixed(100 * Scale - Mul(Div(Sqrt(variance3D(g)), mean3D(g)), 100 * Scale), 1)

RECURSIVE SumCenter(_, _)
SumCenter(g, k) ==
    IF k < 0 THEN 0 ELSE g[k][gridY \div 2][gridX \div 2] + SumCenter(g, k - 1)

RECURSIVE SumWall(_, _)
SumWall(g, k) ==
    IF k < 0 THEN 0
    ELSE RoundDiv(g[k][0][gridX \div 2] + g[k][gridY - 1][gridX \div 2]
                  + g[k][gridY \div 2][0] + g[k][gridY \div 2][gridX - 1], 4)
         + SumWall(g, k - 1)

centerAvg(g) == RoundDiv(SumCenter(g, gridZ - 1), gridZ)
wallAvg(g) == RoundDiv(SumWall(g, gridZ - 1), gridZ)

\* line 230: the fraction depends on the power and the pressure only
highEnergyFraction(p) ==
    ToFixed(Milli(150) + Mul(powerFactor(p), Milli(200))
            - Mul(pressureFactor(p), Milli(100)), 3)

\* variant of the returned record whose highEnergyFraction is read off the
\* grid (the density at the centre of the mid-height layer) instead of the
\* factors of power and pressure
DescriptorsEnergyFromGrid(p, g) ==
    [ grid3D |-> g,
      grid |-> g[midZ],
      dimensions |-> [x |-> gridX, y |-> gridY, z |-> gridZ],
      centerEdgeRatio |-> ToFixed(Div(centerValue(g), avgEdge(g)), 3),
      topBottomGradient |-> ToFixed(Div(avgTop(g), avgBottom(g)), 3),
      highEnergyFraction |->
          ToFixed(Milli(150) + Mul(centerValue(g), Milli(200))
                  - Mul(pressureFactor(p), Milli(100)), 3),
      residenceTimeIndex |->
          ToFixed(Mul(Div(10 * Scale, pressureFactor(p)),
                      Scale + Mul(arFlow(p), Milli(200))), 2),
      verticalUniformity |-> verticalUniformity(g),
      wallLossFactor |-> ToFixed(Scale - Div(wallAvg(g), centerAvg(g)), 3) ]

\* the record returned at lines 224-234, from the finished grid g
Descriptors(p, g) ==
    [ grid3D |-> g,
      grid |-> g[midZ],
      dimensions |-> [x |-> gridX, y |-> gridY, z |-> gridZ],
      centerEdgeRatio |-> ToFixed(Div(centerValue(g), avgEdge(g)), 3),
      topBottomGradient |-> ToFixed(Div(avgTop(g), avgBottom(g)), 3),
      highEnergyFraction |-> highEnergyFraction(p),
      residenceTimeIndex |->
          ToFixed(Mul(Div(10 * Scale, pressureFactor(p)),
                      Scale + Mul(arFlow(p), Milli(200))), 2),
      verticalUniformity |-> verticalUniformity(g),
      wallLossFactor |-> ToFixed(Scale - Div(wallAvg(g), centerAvg(g)), 3) ]

simulateRadicalDistribution(p, noise) == Descriptors(p, SimulateGrid(p, noise))

-----------------------------------------------------------------------------
(* predictQualityMetrics                                                   *)

\* the uniformity of lines 247-276, before the rounding of line 321
Uniformity(p, d) ==
    LET ratioDeviation == Abs(d.centerEdgeRatio - Scale)
        gradientDeviation == Abs(d.topBottomGradient - Scale)
        u0 == 100 * Scale - ratioDeviation * 15 - gradientDeviation * 10
        excessRatio == d.centerEdgeRatio - Milli(1500)
        penaltyFactor == Exp(Mul(Mul(-Milli(2500), excessRatio), excessRatio))
        u1 == IF d.centerEdgeRatio > Milli(1500)
              THEN Mul(u0, penaltyFactor) - excessRatio * 25
              ELSE u0
        u2 == IF d.centerEdgeRatio < Milli(700)
              THEN u1 - (Milli(700) - d.centerEdgeRatio) * 30
              ELSE u1
        u3 == IF p.pulseEnabled THEN u2 + 2 * Scale ELSE u2
        u4 == IF p.pressure > 60 THEN u3 - (p.pressure - 60) * Milli(100) ELSE u3
    IN Max(50 * Scale, Min(Milli(99500), u4))

\* the cdShift of lines 279-288; r1 is the Math.random() draw of line 287
CdShift(d, r1) ==
    LET c0 == (d.centerEdgeRatio - Scale) * 2 + (d.highEnergyFraction - Milli(250)) * 3
        c1 == IF d.centerEdgeRatio > Milli(1500)
              THEN c0 + (d.centerEdgeRatio - Milli(1500)) * 4
              ELSE c0
    IN ToFixed(c1 + Mul(r1 - Scale \div 2, Milli(500)), 2)

\* variant of the riskScore that leaves out the clamp of line 303
RiskScoreUnclamped(p, d, r2) ==
    LET ratioDeviation == Abs(d.centerEdgeRatio - Scale)
        gradientDeviation == Abs(d.topBottomGradient - Scale)
        s0 == ratioDeviation * 30 + gradientDeviation * 20
              + Max(0, d.highEnergyFraction - Milli(350)) * 50
              + (Max(0, p.rfPower - 1500) * Scale) \div 50
              + Max(0, 10 - p.pressure) * 2 * Scale
        s1 == IF d.centerEdgeRatio > Milli(1500)
              THEN s0 + (d.centerEdgeRatio - Milli(1500)) * 40
              ELSE s0
    IN s1 + (r2 - Scale \div 2) * 5

\* the riskScore of lines 291-303; r2 is the Math.random() draw of line 303
RiskScore(p, d, r2) ==
    LET ratioDeviation == Abs(d.centerEdgeRatio - Scale)
        gradientDeviation == Abs(d.topBottomGradient - Scale)
        s0 == ratioDeviation * 30 + gradientDeviation * 20
              + Max(0, d.highEnergyFraction - Milli(350)) * 50
              + (Max(0, p.rfPower - 1500) * Scale) \div 50
              + Max(0, 10 - p.pressure) * 2 * Scale
        s1 == IF d.centerEdgeRatio > Milli(1500)
              THEN s0 + (d.centerEdgeRatio - Milli(1500)) * 40
              ELSE s0
    IN Min(100 * Scale, Max(0, s1 + (r2 - Scale \div 2) * 5))

DefectRisk(riskScore) ==
    IF riskScore < 25 * Scale THEN "low"
    ELSE IF riskScore < 55 * Scale THEN "medium"
    ELSE "high"

\* variant that reads the risk and the cdShift only
StatusWithoutUniformity(uniformity, cdShift, defectRisk) ==
    IF Abs(cdShift) <= 2 * Scale /\ defectRisk = "low"
    THEN "safe"
    ELSE IF Abs(cdShift) <= 4 * Scale /\ defectRisk # "high"
    THEN "warning"
    ELSE "danger"

\* lines 310-317, on the unrounded uniformity and the rounded cdShift
\* variant whose last branch answers "warning"
StatusWithoutDanger(uniformity, cdShift, defectRisk) ==
    IF uniformity >= 94 * Scale /\ Abs(cdShift) <= 2 * Scale /\ defectRisk = "low"
    THEN "safe"
    ELSE "warning"

Status(uniformity, cdShift, defectRisk) ==
    IF uniformity >= 94 * Scale /\ Abs(cdShift) <= 2 * Scale /\ defectRisk = "low"
    THEN "safe"
    ELSE IF uniformity >= 88 * Scale /\ Abs(cdShift) <= 4 * Scale /\ defectRisk # "high"
    THEN "warning"
    ELSE "danger"

predictQualityMetrics(p, d, r1, r2) ==
    LET uniformity == Uniformity(p, d)
        cdShift == CdShift(d, r1)
        riskScore == RiskScore(p, d, r2)
        defectRisk == DefectRisk(riskScore)
    IN [ metrics |-> [ etchUniformity |-> ToFixed(uniformity, 1),
                       cdShift |-> cdShift,
                       defectRisk |-> defectRisk,
                       defectRiskScore |-> ToFixed(riskScore, 1) ],
         status |-> Status(uniformity, cdShift, defectRisk) ]

-----------------------------------------------------------------------------
(* generateRecommendations                                                 *)

\* A recommendation; `reason` names the branch that emits it (the source's
\* reason is a Korean sentence, one per branch).
Rec(parameter, currentValue, recommendedValue, reason, priority) ==
    [ parameter |-> parameter, currentValue |-> currentValue,
      recommendedValue |-> recommendedValue, reason |-> reason,
      priority |-> priority ]

\* variant that pushes whatever the guard says
PushAlways(cond, rec) == <<rec>>

When(cond, rec) == IF cond THEN <<rec>> ELSE <<>>

\* the pushes of lines 344-452, in program order
Triggered(p, d, m) ==
    When(d.centerEdgeRatio > Milli(1500) /\ p.pressure < 30,
         Rec("Pressure", p.pressure, Min(p.pressure + 10, 35), "ratioPressure", "high"))
    \o When(d.centerEdgeRatio > Milli(1500) /\ p.rfPower > 800,
         Rec("RF Power", p.rfPower, Max(p.rfPower - 200, 500), "ratioPower", "high"))
    \o When(d.centerEdgeRatio > Milli(1500) /\ ~p.pulseEnabled,
         Rec("Pulse Mode", 0, 1, "ratioPulse", "medium"))
    \o When(m.etchUniformity < 88 * Scale /\ p.gasFlowAr < 80,
         Rec("Ar Flow", p.gasFlowAr, Min(p.gasFlowAr + 30, 120), "uniformityAr", "medium"))
    \o When(Abs(m.cdShift) > 3 * Scale /\ d.highEnergyFraction > Milli(350),
         Rec("RF Power", p.rfPower, Max(p.rfPower - 150, 400), "cdPower", "high"))
    \o When(Abs(m.cdShift) > 3 * Scale /\ p.gasFlowO2 < 20 /\ m.cdShift > 0,
         Rec("O2 Flow", p.gasFlowO2, Min(p.gasFlowO2 + 10, 30), "cdO2", "medium"))
    \o When(m.defectRisk = "high" /\ p.pressure < 15,
         Rec("Pressure", p.pressure, Min(p.pressure + 8, 25), "riskPressure", "high"))
    \o When(m.defectRisk = "high" /\ p.gasFlowCF4 > 80,
         Rec("CF4 Flow", p.gasFlowCF4, Max(p.gasFlowCF4 - 20, 50), "riskCF4", "medium"))
    \o When(Abs(d.topBottomGradient - Scale) > Milli(300) /\ p.gasFlowAr < 100,
         Rec("Ar Flow", p.gasFlowAr, Min(p.gasFlowAr + 25, 130), "gradientAr", "low"))

\* variant with the order reversed
priorityOrderReversed(priority) ==
    CASE priority = "high" -> 2
      [] priority = "medium" -> 1
      [] priority = "low" -> 0

priorityOrder(priority) ==
    CASE priority = "high" -> 0
      [] priority = "medium" -> 1
      [] priority = "low" -> 2

\* variant that places r before the elements of its own priority
InsertBeforeEqual(sorted, r) ==
    LET keep == { n \in 0..Len(sorted) :
                    \A m \in 1..n : priorityOrder(sorted[m].priority)
                                    < priorityOrder(r.priority) }
        at == CHOOSE n \in keep : \A n2 \in keep : n2 <= n
    IN SubSeq(sorted, 1, at) \o <<r>> \o SubSeq(sorted, at + 1, Len(sorted))

\* r placed after every element of the sorted prefix that does not compare greater
InsertByPriority(sorted, r) ==
    LET keep == { n \in 0..Len(sorted) :
                    \A m \in 1..n : priorityOrder(sorted[m].priority)
                                    <= priorityOrder(r.priority) }
        at == CHOOSE n \in keep : \A n2 \in keep : n2 <= n
    IN SubSeq(sorted, 1, at) \o <<r>> \o SubSeq(sorted, at + 1, Len(sorted))

\* variant that leaves the list in push order
PushOrder(recs, n) == recs

RECURSIVE SortByPriority(_, _)
\* Array.prototype.sort with the comparator of line 456 (a stable sort)
SortByPriority(recs, n) ==
    IF n = 0 THEN <<>>
    ELSE InsertByPriority(SortByPriority(recs, n - 1), recs[n])

\* variant that keeps the whole list
KeepAll(recs) == recs

\* recommendations.slice(0, 3)
Slice3(recs) == SubSeq(recs, 1, Min(3, Len(recs)))

\* variant without the early return of line 339
generateRecommendationsUnguarded(p, d, m, status) ==
    LET recommendations == Triggered(p, d, m)
    IN Slice3(SortByPriority(recommendations, Len(recommendations)))

generateRecommendations(p, d, m, status) ==
    IF status = "safe" THEN <<>>
    ELSE LET recommendations == Triggered(p, d, m)
         IN Slice3(SortByPriority(recommendations, Len(recommendations)))

-----------------------------------------------------------------------------
(* generateStabilityTimeSeries                                             *)

\* variant that does not count the sample at time 0
numPointsWithoutOrigin(p) == Min(60, p.processTime \div 5)

\* variant that takes one sample every 4 seconds
numPointsEveryFour(p) == Min(60, p.processTime \div 4 + 1)

numPoints(p) == Min(60, p.processTime \div 5 + 1)

\* the time of sample i of n (line 484), before toFixed(1)
sampleTime(p, n, i) == Mul(Div(i * Scale, (n - 1) * Scale), p.processTime * Scale)

\* variant that lets the value through
NoClamp(lo, hi, v) == v

\* the nested Math.max / Math.min of lines 523 and 524
Clamp(lo, hi, v) == Max(lo, Min(hi, v))

\* the sample pushed by iteration i of the loop of lines 483-526; rnd is the
\* Math.random() draw of line 518
StabilityPoint(p, d, m, n, i, rnd) ==
    LET processTime == p.processTime * Scale
        baseUniformity == m.etchUniformity
        baseDensity == d.grid3D[5][10][10]
        agingInstability == Mul(rfHoursRatio(p), Milli(150))
        pulseStability == IF p.pulseEnabled THEN Milli(980) ELSE Milli(850)
        time == sampleTime(p, n, i)
        t == Div(time, processTime)
        rampDensity == Scale - Exp(-(t * 30))
        driftPhase == Div(t - Milli(100), Milli(700))
        phase == IF t < Milli(100) THEN "ramp"
                 ELSE IF t < Milli(800) THEN "steady" ELSE "stable"
        densityMultiplier ==
            CASE phase = "ramp" -> rampDensity
              [] phase = "steady" ->
                    Scale + Mul(agingInstability, Sin(Mul(driftPhase, Pi)))
              [] phase = "stable" -> Scale + Mul(agingInstability, Milli(300))
        uniformityDelta ==
            CASE phase = "ramp" -> -5 * (Scale - rampDensity)
              [] phase = "steady" ->
                    Mul(-agingInstability * 10, Sin(Mul(driftPhase, Pi) * 2))
              [] phase = "stable" -> -agingInstability * 3
        temperature ==
            CASE phase = "ramp" -> Milli(300) + Div(Mul(Milli(400), t), Milli(100))
              [] phase = "steady" -> Milli(700) + Mul(Milli(200), driftPhase)
              [] phase = "stable" ->
                    Milli(850) + Mul(Milli(100), Div(t - Milli(800), Milli(200)))
        noise == Mul(Mul(rnd - Scale \div 2, Milli(20)), Scale + agingInstability)
    IN [ time |-> ToFixed(time, 1),
         radicalDensity |->
             ToFixed(Mul(Mul(baseDensity, Mul(densityMultiplier, pulseStability)),
                         Scale + noise), 4),
         uniformity |->
             ToFixed(Clamp(50 * Scale, 100 * Scale,
                           baseUniformity + uniformityDelta + noise * 10), 1),
         temperature |->
             ToFixed(Clamp(0, Scale, temperature + Mul(noise, Milli(100))), 3) ]

\* sn[i % 2] is the draw of sample i: the even and the odd samples each share one
generateStabilityTimeSeries(p, d, m, sn) ==
    LET n == numPoints(p)
    IN [ i \in 1..n |-> StabilityPoint(p, d, m, n, i - 1, sn[((i - 1) % 2) + 1]) ]

-----------------------------------------------------------------------------
(* calculateRoiMetrics                                                     *)

waferCost == 150
batchSize == 25
baseSellingPrice == 200
optimalYield == 98

\* variant without the clamp of line 557
YieldRateUnclamped(m) ==
    LET y0 == Mul(m.etchUniformity, Milli(800))
        y1 == IF m.defectRisk = "medium" THEN y0 - 10 * Scale
              ELSE IF m.defectRisk = "high" THEN y0 - 25 * Scale
              ELSE y0
    IN y1 - Abs(m.cdShift) * 2

\* lines 544-557, in micro percent
YieldRate(m) ==
    LET y0 == Mul(m.etchUniformity, Milli(800))
        y1 == IF m.defectRisk = "medium" THEN y0 - 10 * Scale
              ELSE IF m.defectRisk = "high" THEN y0 - 25 * Scale
              ELSE y0
        y2 == y1 - Abs(m.cdShift) * 2
    IN Max(30 * Scale, Min(99 * Scale, y2))

\* variant that rounds up
goodWafersRoundedUp(yieldRate) ==
    (batchSize * (yieldRate \div 100) + Scale - 1) \div Scale

\* Math.floor(batchSize * yieldRate / 100)
goodWafers(yieldRate) == (batchSize * (yieldRate \div 100)) \div Scale

\* revenue - materialCost - scrapLoss, in whole USD (scrapLoss is 75 a wafer)
BatchProfit(good) ==
    good * baseSellingPrice - batchSize * waferCost
    - ((batchSize - good) * waferCost * 5) \div 10

optimalProfit ==
    ((batchSize * optimalYield) \div 100) * baseSellingPrice - batchSize * waferCost

\* variant that keeps the whole amount
WholeToFixed0(x) == x

\* Number((x / 2).toFixed(0)) for an integer x: half away from zero
HalfToFixed0(x) == IF x >= 0 THEN (x + 1) \div 2 ELSE -((-x + 1) \div 2)

calculateRoiMetrics(p, m, status) ==
    LET yieldRate == YieldRate(m)
        estimatedBatchProfit == BatchProfit(goodWafers(yieldRate))
        shortfall == optimalProfit - estimatedBatchProfit
    IN [ estimatedBatchProfit |-> estimatedBatchProfit,
         potentialLossReduction |->
             IF status = "danger" THEN shortfall
             ELSE IF status = "warning" THEN HalfToFixed0(shortfall)
             ELSE 0,
         waferCost |-> waferCost,
         batchSize |-> batchSize,
         yieldRate |-> ToFixed(yieldRate, 1) ]

-----------------------------------------------------------------------------
(* generatePrediction                                                      *)

\* recommendations.length > 0 ? recommendations : undefined
OrUndefined(recommendations) ==
    IF Len(recommendations) > 0
    THEN [ defined |-> TRUE, value |-> recommendations ]
    ELSE [ defined |-> FALSE, value |-> <<>> ]

\* lines 587-602 from the finished distribution d; rnd holds the draws of
\* predictQualityMetrics (r1, r2) and of the stability series (sn)
AssemblePrediction(p, d, rnd, id, timestamp) ==
    LET q == predictQualityMetrics(p, d, rnd.r1, rnd.r2)
        recommendations == generateRecommendations(p, d, q.metrics, q.status)
    IN [ id |-> id,
         timestamp |-> timestamp,
         parameters |-> p,
         radicalDistribution |-> d,
         qualityMetrics |-> q.metrics,
         roiMetrics |-> calculateRoiMetrics(p, q.metrics, q.status),
         stabilityTimeSeries |-> generateStabilityTimeSeries(p, d, q.metrics, rnd.sn),
         status |-> q.status,
         recommendations |-> OrUndefined(recommendations) ]

generatePrediction(p, noise, rnd, id, timestamp) ==
    AssemblePrediction(p, simulateRadicalDistribution(p, noise), rnd, id, timestamp)

-----------------------------------------------------------------------------
(* Inputs                                                                  *)

\* Math.random() takes RandSteps evenly spaced values and one just below 1
RandSteps == 2
Draws == { (k * Scale) \div RandSteps : k \in 0..RandSteps - 1 } \cup { Scale - 1 }

\* Per-cell noise: the center column and the top layer share a draw, the wall
\* midpoints and the bottom layer share another, the rest is at mid range.
NoiseFields ==
    { [ center |-> a, edge |-> b, top |-> a, bottom |-> b, bulk |-> Scale \div 2 ] :
        a \in Draws, b \in Draws }

\* the draws of predictQualityMetrics and generateStabilityTimeSeries
Rnds == { [ r1 |-> a, r2 |-> b, sn |-> <<c, c>> ] : a \in Draws, b \in Draws, c \in Draws }

Params(rfPower, pressure, cf4, o2, ar, pulseEnabled, processTime) ==
    [ rfPower |-> rfPower, pressure |-> pressure, gasFlowCF4 |-> cf4,
      gasFlowO2 |-> o2, gasFlowAr |-> ar, pulseEnabled |-> pulseEnabled,
      processTime |-> processTime ]

WithOptional(p, dutyCycle, frequency, hours) ==
    [ f \in DOMAIN p \cup {"pulseDutyCycle", "pulseFrequency", "chamberRfHours"} |->
        IF f = "pulseDutyCycle" THEN dutyCycle
        ELSE IF f = "pulseFrequency" THEN frequency
        ELSE IF f = "chamberRfHours" THEN hours
        ELSE p[f] ]

\* the form defaults of the dashboard
DefaultParams == WithOptional(Params(800, 20, 80, 20, 50, FALSE, 120), 50, 1000, 0)

\* rfPower 1900, pressure 5, no pulse, 480 RF hours
AgedParams(cf4, o2, ar, processTime) ==
    WithOptional(Params(1900, 5, cf4, o2, ar, FALSE, processTime), 50, 1000, 480)

\* Valid parameter records the engine is run on: the two end-to-end examples
\* (the second with the gas flows at both ends of their ranges), a low-power
\* high-pressure record whose densities fall under the floor, and records near
\* the status thresholds; the last one has the lowest power, pressure, duty
\* cycle, frequency and process time the schema accepts.
EngineParams ==
    << DefaultParams,
       AgedParams(80, 20, 50, 120),
       AgedParams(0, 0, 0, 10),
       AgedParams(200, 100, 200, 600),
       WithOptional(Params(100, 100, 0, 20, 200, TRUE, 33), 30, 5000, 250),
       Params(350, 60, 80, 20, 100, FALSE, 120),
       Params(350, 50, 80, 20, 200, FALSE, 120),
       WithOptional(Params(600, 45, 80, 10, 50, TRUE, 305), 50, 1000, 100),
       WithOptional(Params(100, 1, 0, 0, 0, TRUE, 10), 10, 100, 0) >>

NoValue == [ none |-> TRUE ]

-----------------------------------------------------------------------------
(* The engine: one run of generatePrediction                               *)

\* the state before the operation under check has run on inp
Idle(inp) ==
    /\ pc = "idle"
    /\ input = inp
    /\ grid3D = NoValue
    /\ distribution = NoValue
    /\ result = NoValue
    /\ store = <<>>
    /\ request = NoValue
    /\ response = NoValue
    /\ calls = 0
    /\ nextId = 1
    /\ clock = 0

EngineInit == \E n \in 1..Len(EngineParams) : Idle([ params |-> EngineParams[n] ])

GeneratePrediction ==
    /\ pc = "idle"
    /\ \E noise \in NoiseFields :
          /\ grid3D' = SimulateGrid(input.params, noise)
          /\ distribution' = Descriptors(input.params, grid3D')
          /\ \E rnd \in Rnds :
                result' = AssemblePrediction(input.params, distribution', rnd, nextId, clock)
    /\ pc' = "done"
    /\ calls' = calls + 1
    /\ nextId' = nextId + 1
    /\ UNCHANGED <<input, store, request, response, clock>>

EngineNext == GeneratePrediction

SpecEngine == EngineInit /\ [][EngineNext]_vars

-----------------------------------------------------------------------------
(* Properties of one prediction                                            *)

Done == pc = "done"

\* the recommendations a client finds in a prediction (none when the field is undefined)
Carried(prediction) ==
    IF prediction.recommendations.defined THEN prediction.recommendations.value ELSE <<>>

\* the status rule as documented, read on a returned QualityMetrics
DocumentedStatus(m) ==
    IF m.etchUniformity >= 94 * Scale /\ Abs(m.cdShift) <= 2 * Scale /\ m.defectRisk = "low"
    THEN "safe"
    ELSE IF m.etchUniformity >= 88 * Scale /\ Abs(m.cdShift) <= 4 * Scale
            /\ m.defectRisk # "high"
    THEN "warning"
    ELSE "danger"

\* C1: the status of every prediction is the documented function of its returned
\* quality metrics (safe iff etchUniformity >= 94, |cdShift| <= 2, defectRisk low;
\* else warning iff etchUniformity >= 88, |cdShift| <= 4, defectRisk not high;
\* else danger).
C1_StatusFollowsReturnedMetrics ==
    Done => result.status = DocumentedStatus(result.qualityMetrics)

C5_GridShapeAndFloor ==
    Done =>
        /\ DOMAIN grid3D = 0..9
        /\ \A k \in DOMAIN grid3D :
              /\ DOMAIN grid3D[k] = 0..19
              /\ \A i \in DOMAIN grid3D[k] :
                    /\ DOMAIN grid3D[k][i] = 0..19
                    /\ \A j \in DOMAIN grid3D[k][i] : grid3D[k][i][j] >= Milli(50)
        /\ result.radicalDistribution.grid3D = grid3D

\* a grid with a cell that sits on the floor of 0.05
C5_Witness ==
    /\ Done
    /\ \E k \in 0..gridZ - 1, i \in 0..gridY - 1, j \in 0..gridX - 1 :
          grid3D[k][i][j] = Milli(50)


IsDefaultInput == input.params = DefaultParams

\* C8 as stated: for the default input (800 W, 20 mTorr, 80/20/50 sccm, no
\* pulse, 120 s, 0 RF hours) centerEdgeRatio does not exceed 1.5 and the status
\* is safe or warning for every noise draw.
C8_DefaultNeverDanger ==
    (Done /\ IsDefaultInput) =>
        /\ distribution.centerEdgeRatio <= Milli(1500)
        /\ result.status \in {"safe", "warning"}

\* C8, amended: for the default input centerEdgeRatio exceeds 1.5 and the
\* status is danger for every noise draw.
C8_DefaultAlwaysDanger ==
    (Done /\ IsDefaultInput) =>
        /\ distribution.centerEdgeRatio > Milli(1500)
        /\ result.radicalDistribution.centerEdgeRatio = distribution.centerEdgeRatio
        /\ result.status = "danger"

\* the default input predicted with the noise at an end of its range
C8_Witness ==
    /\ Done
    /\ IsDefaultInput
    /\ result.status = "danger"
    /\ result.qualityMetrics.etchUniformity < 88 * Scale
    /\ distribution.centerEdgeRatio > Milli(1850)

IsAgedInput ==
    /\ input.params.rfPower = 1900
    /\ input.params.pressure = 5
    /\ ~input.params.pulseEnabled
    /\ rfHours(input.params) = 480

HighOnPressureOrPower(r) ==
    r.priority = "high" /\ r.parameter \in {"Pressure", "RF Power"}

\* C9: for rfPower 1900, pressure 5, no pulse, 480 RF hours (any gas flows and
\* process time) and every noise draw: centerEdgeRatio > 1.5, the status is
\* danger and some returned recommendation has priority high and parameter
\* Pressure or RF Power.
C9_AgedInputIsDanger ==
    (Done /\ IsAgedInput) =>
        /\ distribution.centerEdgeRatio > Milli(1500)
        /\ result.status = "danger"
        /\ \E n \in 1..Len(Carried(result)) : HighOnPressureOrPower(Carried(result)[n])

\* the aged input with the gas flows at zero: more than three branches fire,
\* among them medium and low ones, and the three returned are all high
C9_Witness ==
    /\ Done
    /\ IsAgedInput
    /\ input.params.gasFlowAr = 0
    /\ Len(Triggered(input.params, distribution, result.qualityMetrics)) > 3
    /\ \E n \in 1..Len(Triggered(input.params, distribution, result.qualityMetrics)) :
          Triggered(input.params, distribution, result.qualityMetrics)[n].priority = "low"
    /\ Len(Carried(result)) = 3
    /\ \A n \in 1..3 : HighOnPressureOrPower(Carried(result)[n])

-----------------------------------------------------------------------------
(* generateRecommendations on arbitrary arguments                          *)

RecsParams ==
    { Params(rfPower, pressure, cf4, o2, ar, pulseEnabled, 120) :
        rfPower \in {100, 400, 500, 1100, 1900}, pressure \in {5, 20, 50}, cf4 \in {50, 100},
        o2 \in {10, 30}, ar \in {50, 90, 150}, pulseEnabled \in BOOLEAN }

\* the descriptors generateRecommendations reads: the two that depend on the
\* grid range over values on both sides of the thresholds, the
\* highEnergyFraction is the one simulateRadicalDistribution returns for p
RecsDescriptors(p) ==
    { [ centerEdgeRatio |-> cer, highEnergyFraction |-> highEnergyFraction(p),
        topBottomGradient |-> tbg ] :
        cer \in {Scale, Milli(1800)}, tbg \in {Scale, Milli(1500)} }

RecsMetrics ==
    { [ etchUniformity |-> u * Scale, cdShift |-> cd, defectRisk |-> risk,
        defectRiskScore |-> 50 * Scale ] :
        u \in {80, 95}, cd \in {-Milli(3500), 0, Milli(3500)}, risk \in {"low", "high"} }

Statuses == {"safe", "warning", "danger"}

RecsInit ==
    \E p \in RecsParams : \E d \in RecsDescriptors(p), m \in RecsMetrics, status \in Statuses :
        Idle([ params |-> p, distribution |-> d, metrics |-> m, status |-> status ])

GenerateRecommendations ==
    /\ pc = "idle"
    /\ result' = generateRecommendations(input.params, input.distribution,
                                         input.metrics, input.status)
    /\ pc' = "done"
    /\ UNCHANGED <<input, grid3D, distribution, store, request, response, calls,
                   nextId, clock>>

RecsNext == GenerateRecommendations

SpecRecs == RecsInit /\ [][RecsNext]_vars

\* C3: generateRecommendations returns at most 3 recommendations for every
\* combination of parameters, descriptors, metrics and status, also when all
\* nine trigger branches fire.
C3_AtMostThree == Done => Len(result) <= 3

\* all nine branches fire and three recommendations are returned
C3_Witness ==
    /\ Done
    /\ input.status # "safe"
    /\ Len(Triggered(input.params, input.distribution, input.metrics)) = 9
    /\ Len(result) = 3

\* C4: in every returned list no medium or low entry precedes a high entry and
\* no low entry precedes a medium entry.
C4_PrioritiesNonDecreasing ==
    Done =>
        \A a \in 1..Len(result), b \in 1..Len(result) :
            a < b =>
                /\ ~(result[b].priority = "high" /\ result[a].priority \in {"medium", "low"})
                /\ ~(result[b].priority = "medium" /\ result[a].priority = "low")

\* a high push follows a medium one in program order, and the returned list
\* holds more than one priority
C4_Witness ==
    /\ Done
    /\ \E a, b \in 1..Len(Triggered(input.params, input.distribution, input.metrics)) :
          /\ a < b
          /\ Triggered(input.params, input.distribution, input.metrics)[a].priority = "medium"
          /\ Triggered(input.params, input.distribution, input.metrics)[b].priority = "high"
    /\ Len(result) >= 2
    /\ result[1].priority = "high"
    /\ result[Len(result)].priority # "high"

-----------------------------------------------------------------------------
(* generateStabilityTimeSeries over the range of processTime               *)

\* processTime ranges over the whole seconds the schema admits
ProcessTimes == 10..600

MidNoise ==
    [ center |-> Scale \div 2, edge |-> Scale \div 2, top |-> Scale \div 2,
      bottom |-> Scale \div 2, bulk |-> Scale \div 2 ]

\* the records of EngineParams the series is generated for: the default one
\* and the pulsed one of an aged chamber
StabilityBases == {1, 8}

\* their distributions and quality metrics; neither reads processTime
StabilityDistribution ==
    [ n \in StabilityBases |-> simulateRadicalDistribution(EngineParams[n], MidNoise) ]

StabilityMetrics ==
    [ n \in StabilityBases |->
        predictQualityMetrics(EngineParams[n], StabilityDistribution[n],
                              Scale \div 2, Scale \div 2).metrics ]

StabilityInit ==
    \E n \in StabilityBases, processTime \in ProcessTimes :
        Idle([ params |-> [ EngineParams[n] EXCEPT !.processTime = processTime ],
               base |-> n ])

GenerateStabilityTimeSeries ==
    /\ pc = "idle"
    /\ \E a \in Draws :
          result' = generateStabilityTimeSeries(input.params,
                                                StabilityDistribution[input.base],
                                                StabilityMetrics[input.base],
                                                <<a, Scale - 1 - a>>)
    /\ pc' = "done"
    /\ UNCHANGED <<input, grid3D, distribution, store, request, response, calls,
                   nextId, clock>>

StabilityNext == GenerateStabilityTimeSeries

SpecStability == StabilityInit /\ [][StabilityNext]_vars

\* C6: for every processTime in [10, 600] the series has exactly
\* min(60, floor(processTime / 5) + 1) samples, the first at time 0 and the
\* last at time processTime.
C6_SeriesLengthAndEnds ==
    Done =>
        /\ DOMAIN result = 1..(IF input.params.processTime \div 5 + 1 < 60
                               THEN input.params.processTime \div 5 + 1 ELSE 60)
        /\ result[1].time = 0
        /\ result[Len(result)].time = input.params.processTime * Scale

\* a series cut at 60 samples whose process time is no multiple of 5
C6_Witness ==
    /\ Done
    /\ input.params.processTime = 598
    /\ Len(result) = 60
    /\ result[60].time = 598 * Scale
    /\ result[2].time > 0

-----------------------------------------------------------------------------
(* calculateRoiMetrics over the metrics the predictor can return           *)

\* etchUniformity is clamped to [50, 99.5] and has one decimal; cdShift has
\* two; the risk score is not read
RoiMetricsInputs ==
    { [ etchUniformity |-> u * (Scale \div 2), cdShift |-> cd * (Scale \div 4),
        defectRisk |-> risk, defectRiskScore |-> 0 ] :
        u \in 100..199, cd \in -12..48, risk \in {"low", "medium", "high"} }

RoiInit ==
    \E m \in RoiMetricsInputs, status \in Statuses :
        Idle([ params |-> DefaultParams, metrics |-> m, status |-> status ])

CalculateRoiMetrics ==
    /\ pc = "idle"
    /\ result' = calculateRoiMetrics(input.params, input.metrics, input.status)
    /\ pc' = "done"
    /\ UNCHANGED <<input, grid3D, distribution, store, request, response, calls,
                   nextId, clock>>

RoiNext == CalculateRoiMetrics

SpecRoi == RoiInit /\ [][RoiNext]_vars

\* C7: calculateRoiMetrics returns a yieldRate in [30, 99] and a finite
\* estimatedBatchProfit (an amount between the profit of 7 and of 24 good
\* wafers out of 25).
C7_YieldAndProfitBounded ==
    Done =>
        /\ result.yieldRate >= 30 * Scale
        /\ result.yieldRate <= 99 * Scale
        /\ result.estimatedBatchProfit \in -3700..975

\* metrics whose raw yield lies under 30: the clamp has acted
C7_Witness ==
    /\ Done
    /\ input.metrics.defectRisk = "high"
    /\ input.metrics.etchUniformity = 50 * Scale
    /\ result.yieldRate = 30 * Scale
    /\ result.estimatedBatchProfit = -3700

-----------------------------------------------------------------------------
(* Request bodies and processParametersSchema                              *)

\* a JSON value of a request body, by its type; v is the number, or 1 for true
Num(v) == [ t |-> "number", v |-> v ]
Bool(b) == [ t |-> "boolean", v |-> IF b THEN 1 ELSE 0 ]
Str == [ t |-> "string", v |-> 0 ]
Missing == [ t |-> "undefined", v |-> 0 ]

NumberField(key, min, max, optional) ==
    [ key |-> key, type |-> "number", min |-> min, max |-> max, optional |-> optional ]

\* variant whose rfPower has no effective upper bound
SchemaWithoutPowerLimit ==
    << NumberField("rfPower", 100, 5000, FALSE),
       NumberField("pressure", 1, 100, FALSE),
       NumberField("gasFlowCF4", 0, 200, FALSE),
       NumberField("gasFlowO2", 0, 100, FALSE),
       NumberField("gasFlowAr", 0, 200, FALSE),
       [ key |-> "pulseEnabled", type |-> "boolean", min |-> 0, max |-> 1,
         optional |-> FALSE ],
       NumberField("pulseDutyCycle", 10, 90, TRUE),
       NumberField("pulseFrequency", 100, 10000, TRUE),
       NumberField("processTime", 10, 600, FALSE),
       NumberField("chamberRfHours", 0, 500, TRUE) >>

processParametersSchema ==
    << NumberField("rfPower", 100, 2000, FALSE),
       NumberField("pressure", 1, 100, FALSE),
       NumberField("gasFlowCF4", 0, 200, FALSE),
       NumberField("gasFlowO2", 0, 100, FALSE),
       NumberField("gasFlowAr", 0, 200, FALSE),
       [ key |-> "pulseEnabled", type |-> "boolean", min |-> 0, max |-> 1,
         optional |-> FALSE ],
       NumberField("pulseDutyCycle", 10, 90, TRUE),
       NumberField("pulseFrequency", 100, 10000, TRUE),
       NumberField("processTime", 10, 600, FALSE),
       NumberField("chamberRfHours", 0, 500, TRUE) >>

SchemaKeys == { processParametersSchema[n].key : n \in 1..Len(processParametersSchema) }

\* whether value x passes the checks of schema entry f
FieldOk(f, x) ==
    IF x.t = "undefined" THEN f.optional
    ELSE /\ x.t = f.type
         /\ f.type = "number" => (x.v >= f.min /\ x.v <= f.max)

\* ZodError.errors: the keys that fail, in schema order
Issues(body) ==
    SelectSeq([ n \in 1..Len(processParametersSchema) |-> processParametersSchema[n].key ],
              LAMBDA key :
                  \E n \in 1..Len(processParametersSchema) :
                      /\ processParametersSchema[n].key = key
                      /\ ~FieldOk(processParametersSchema[n], body[key]))

\* processParametersSchema.parse(body) does not throw
Valid(body) == Issues(body) = <<>>

\* the value parse returns: the keys present, as a ProcessParameters
Parse(body) ==
    [ key \in { k \in SchemaKeys : body[k].t # "undefined" } |->
        IF body[key].t = "boolean" THEN body[key].v = 1 ELSE body[key].v ]

Body(rfPower, pressure, cf4, o2, ar, pulseEnabled, dutyCycle, frequency, processTime, hours) ==
    [ rfPower |-> rfPower, pressure |-> pressure, gasFlowCF4 |-> cf4, gasFlowO2 |-> o2,
      gasFlowAr |-> ar, pulseEnabled |-> pulseEnabled, pulseDutyCycle |-> dutyCycle,
      pulseFrequency |-> frequency, processTime |-> processTime, chamberRfHours |-> hours ]

\* what the dashboard form posts unchanged
DefaultBody ==
    Body(Num(800), Num(20), Num(80), Num(20), Num(50), Bool(FALSE), Num(50), Num(1000),
         Num(120), Num(0))

\* bodies the schema accepts: the default one and one without the optional keys
ValidBodies ==
    << DefaultBody,
       Body(Num(350), Num(60), Num(80), Num(20), Num(100), Bool(TRUE), Missing, Missing,
            Num(30), Missing) >>

\* one key of the default body replaced
Faults ==
    << <<"rfPower", Num(99)>>, <<"rfPower", Num(2001)>>, <<"rfPower", Str>>,
       <<"rfPower", Missing>>,
       <<"pressure", Num(0)>>, <<"pressure", Num(101)>>,
       <<"gasFlowCF4", Num(-1)>>, <<"gasFlowCF4", Num(201)>>,
       <<"gasFlowO2", Num(-1)>>, <<"gasFlowO2", Num(101)>>,
       <<"gasFlowAr", Num(-1)>>, <<"gasFlowAr", Num(201)>>,
       <<"pulseEnabled", Missing>>, <<"pulseEnabled", Str>>, <<"pulseEnabled", Num(1)>>,
       <<"pulseDutyCycle", Num(9)>>, <<"pulseDutyCycle", Num(91)>>,
       <<"pulseFrequency", Num(99)>>, <<"pulseFrequency", Num(10001)>>,
       <<"processTime", Num(9)>>, <<"processTime", Num(601)>>, <<"processTime", Missing>>,
       <<"chamberRfHours", Num(-1)>>, <<"chamberRfHours", Num(501)>>,
       <<"chamberRfHours", Str>> >>

EmptyBody == [ key \in SchemaKeys |-> Missing ]

Bodies ==
    ValidBodies
    \o [ n \in 1..Len(Faults) |-> [ DefaultBody EXCEPT ![Faults[n][1]] = Faults[n][2] ] ]
    \o << EmptyBody >>

-----------------------------------------------------------------------------
(* MemStorage: predictions is a Map, kept here in insertion order          *)

\* variant that stores nothing
discardPrediction(predictions, prediction) == predictions

\* variant that replaces the whole map by the one entry
keepOnlyPrediction(predictions, prediction) == << prediction >>

\* this.predictions.set(prediction.id, prediction): a known key keeps its place
savePrediction(predictions, prediction) ==
    IF \E n \in 1..Len(predictions) : predictions[n].id = prediction.id
    THEN [ n \in 1..Len(predictions) |->
             IF predictions[n].id = prediction.id THEN prediction ELSE predictions[n] ]
    ELSE Append(predictions, prediction)

\* r placed after every element of the sorted prefix whose timestamp is not older
InsertByTimestamp(sorted, r) ==
    LET keep == { n \in 0..Len(sorted) :
                    \A m \in 1..n : sorted[m].timestamp >= r.timestamp }
        at == CHOOSE n \in keep : \A n2 \in keep : n2 <= n
    IN SubSeq(sorted, 1, at) \o <<r>> \o SubSeq(sorted, at + 1, Len(sorted))

RECURSIVE NewestFirst(_, _)
\* the sort of line 632: newest first, equal timestamps in insertion order
NewestFirst(predictions, n) ==
    IF n = 0 THEN <<>>
    ELSE InsertByTimestamp(NewestFirst(predictions, n - 1), predictions[n])

\* variant that returns the values in insertion order
getAllUnsorted(predictions) == predictions

getAllPredictions(predictions) == NewestFirst(predictions, Len(predictions))

\* variant that finds every entry whatever the id
getAnyPrediction(predictions, id) == 1..Len(predictions)

\* this.predictions.get(id): the indices holding id (none: undefined)
getPrediction(predictions, id) ==
    { n \in 1..Len(predictions) : predictions[n].id = id }

clearPredictions(predictions) == <<>>

-----------------------------------------------------------------------------
(* The Express routes                                                      *)

\* generatePrediction runs at most MaxPosts times; the clock stops at MaxClock
MaxPosts == 2
MaxClock == 1

\* the draws of a prediction made by the server: all at mid range
ServerRnds == { [ r1 |-> a, r2 |-> a, sn |-> <<a, a>> ] : a \in {Scale \div 2} }

\* simulateRadicalDistribution on each body the schema accepts
Simulated ==
    [ n \in 1..Len(Bodies) |->
        IF Valid(Bodies[n]) THEN simulateRadicalDistribution(Parse(Bodies[n]), MidNoise)
        ELSE NoValue ]

Request(method, path, body, id) ==
    [ method |-> method, path |-> path, body |-> body, id |-> id ]

Init ==
    /\ pc = "listening"
    /\ input = NoValue
    /\ grid3D = NoValue
    /\ distribution = NoValue
    /\ result = NoValue
    /\ store = <<>>
    /\ request = NoValue
    /\ response = NoValue
    /\ calls = 0
    /\ nextId = 1
    /\ clock = 0

\* app.post("/api/predict"), lines 37-53
PostPredict ==
    \E n \in 1..Len(Bodies) :
        /\ request' = Request("POST", "/api/predict", Bodies[n], 0)
        /\ IF Valid(Bodies[n])
           THEN /\ calls < MaxPosts
                /\ \E rnd \in ServerRnds :
                      LET prediction ==
                              AssemblePrediction(Parse(Bodies[n]), Simulated[n], rnd,
                                                 nextId, clock)
                      IN /\ store' = savePrediction(store, prediction)
                         /\ response' = [ status |-> 200, json |-> prediction ]
                /\ calls' = calls + 1
                /\ nextId' = nextId + 1
           ELSE /\ response' = [ status |-> 400,
                                 json |-> [ error |-> "Invalid parameters",
                                            details |-> Issues(Bodies[n]) ] ]
                /\ UNCHANGED <<store, calls, nextId>>
        /\ UNCHANGED <<pc, input, grid3D, distribution, result, clock>>

\* app.get("/api/predictions"), lines 12-20
GetPredictions ==
    /\ request' = Request("GET", "/api/predictions", EmptyBody, 0)
    /\ response' = [ status |-> 200, json |-> getAllPredictions(store) ]
    /\ UNCHANGED <<pc, input, grid3D, distribution, result, store, calls, nextId, clock>>

\* app.get("/api/predictions/:id"), lines 23-34
GetPrediction ==
    \E id \in 1..MaxPosts + 1 :
        /\ request' = Request("GET", "/api/predictions/:id", EmptyBody, id)
        /\ response' =
              IF getPrediction(store, id) = {}
              THEN [ status |-> 404, json |-> [ error |-> "Prediction not found" ] ]
              ELSE [ status |-> 200,
                     json |-> store[CHOOSE n \in getPrediction(store, id) : TRUE] ]
        /\ UNCHANGED <<pc, input, grid3D, distribution, result, store, calls, nextId,
                       clock>>

\* app.delete("/api/predictions"), lines 56-64
DeletePredictions ==
    /\ request' = Request("DELETE", "/api/predictions", EmptyBody, 0)
    /\ store' = clearPredictions(store)
    /\ response' = [ status |-> 200, json |-> [ success |-> TRUE ] ]
    /\ UNCHANGED <<pc, input, grid3D, distribution, result, calls, nextId, clock>>

\* time passes between two requests
Tick ==
    /\ clock < MaxClock
    /\ clock' = clock + 1
    /\ UNCHANGED <<pc, input, grid3D, distribution, result, store, request, response,
                   calls, nextId>>

Next ==
    \/ PostPredict
    \/ GetPredictions
    \/ GetPrediction
    \/ DeletePredictions
    \/ Tick

Spec == Init /\ [][Next]_vars

\* the bounds of ProcessParameters as documented, read on a request body: a
\* required key is missing or of the wrong type, or a number is out of range
OutOfRange(x, min, max) == x.t = "number" /\ (x.v < min \/ x.v > max)

ViolatesBounds(body) ==
    \/ \E key \in {"rfPower", "pressure", "gasFlowCF4", "gasFlowO2", "gasFlowAr",
                   "processTime"} : body[key].t # "number"
    \/ body.pulseEnabled.t # "boolean"
    \/ OutOfRange(body.rfPower, 100, 2000)
    \/ OutOfRange(body.pressure, 1, 100)
    \/ OutOfRange(body.gasFlowCF4, 0, 200)
    \/ OutOfRange(body.gasFlowO2, 0, 100)
    \/ OutOfRange(body.gasFlowAr, 0, 200)
    \/ OutOfRange(body.pulseDutyCycle, 10, 90)
    \/ OutOfRange(body.pulseFrequency, 100, 10000)
    \/ OutOfRange(body.processTime, 10, 600)
    \/ OutOfRange(body.chamberRfHours, 0, 500)

IsPostPredict(req) == req # NoValue /\ req.method = "POST" /\ req.path = "/api/predict"

\* C10: a POST /api/predict whose body violates a bound of ProcessParameters, or
\* lacks or mistypes a required key, is answered 400 'Invalid parameters',
\* generatePrediction is not invoked for it and the store is left unchanged.
C10_InvalidBodyRejected ==
    [][ (request' # request /\ IsPostPredict(request') /\ ViolatesBounds(request'.body))
        => /\ response'.status = 400
           /\ response'.json.error = "Invalid parameters"
           /\ calls' = calls
           /\ store' = store ]_vars

\* an out-of-range body was just answered 400 while the store holds a prediction
C10_Witness ==
    /\ IsPostPredict(request)
    /\ ViolatesBounds(request.body)
    /\ request.body.rfPower = Num(2001)
    /\ response.status = 400
    /\ Len(store) = 1
    /\ calls = 1

-----------------------------------------------------------------------------
(* The Netlify function handler                                            *)

\* generateUUID draws each hex digit from Math.random(): ids may repeat
MaxIds == 2
NetlifyIds == 1..MaxIds

\* event.body: absent, text that is no JSON, the text "null", or an object
RawBody(kind, json) == [ kind |-> kind, json |-> json ]

RawBodies ==
    << RawBody("absent", EmptyBody), RawBody("malformed", EmptyBody),
       RawBody("null", EmptyBody) >>
    \o [ n \in 1..Len(Bodies) |-> RawBody("object", Bodies[n]) ]

\* JSON.parse(event.body || '{}') throws a SyntaxError
ParseThrows(raw) == raw.kind = "malformed"

\* the value JSON.parse(event.body || '{}') returns
JsonParse(raw) ==
    IF raw.kind = "null" THEN [ isNull |-> TRUE, fields |-> EmptyBody ]
    ELSE [ isNull |-> FALSE, fields |-> raw.json ]

\* generatePrediction(body) throws a TypeError: params.rfPower is read from null
EngineThrows(body) == body.isNull

\* The PredictionResult of this handler's generatePrediction: its id, timestamp
\* and parameters. The engine's outputs are numbers (NaN where a key is missing
\* or no number) that the handler does not read; they are left out.
NetlifyPrediction(body, id, timestamp) ==
    [ id |-> id, timestamp |-> timestamp, parameters |-> body.fields ]

Event(httpMethod, path, body, id) ==
    [ method |-> httpMethod, path |-> path, body |-> body, id |-> id ]

NoRawBody == RawBody("absent", EmptyBody)

Reply(statusCode, body) == [ status |-> statusCode, json |-> body ]

InternalServerError == Reply(500, [ error |-> "Internal server error" ])

\* lines 432-441 and the catch of lines 448-455
NetlifyPostPredict ==
    \E n \in 1..Len(RawBodies) :
        /\ request' = Event("POST", "/predict", RawBodies[n], 0)
        /\ IF ParseThrows(RawBodies[n])
           THEN /\ response' = InternalServerError
                /\ UNCHANGED <<store, calls>>
           ELSE IF EngineThrows(JsonParse(RawBodies[n]))
           THEN /\ response' = InternalServerError
                /\ calls' = calls + 1
                /\ UNCHANGED store
           ELSE /\ \E id \in NetlifyIds :
                      LET prediction ==
                              NetlifyPrediction(JsonParse(RawBodies[n]), id, clock)
                      IN /\ store' = savePrediction(store, prediction)
                         /\ response' = Reply(200, prediction)
                /\ calls' = calls + 1
        /\ calls < MaxPosts
        /\ UNCHANGED <<pc, input, grid3D, distribution, result, nextId, clock>>

\* lines 394-403
NetlifyGetPredictions ==
    /\ request' = Event("GET", "/predictions", NoRawBody, 0)
    /\ response' = Reply(200, getAllPredictions(store))
    /\ UNCHANGED <<pc, input, grid3D, distribution, result, store, calls, nextId, clock>>

\* lines 405-412
NetlifyDeletePredictions ==
    /\ request' = Event("DELETE", "/predictions", NoRawBody, 0)
    /\ store' = <<>>
    /\ response' = Reply(200, [ success |-> TRUE ])
    /\ UNCHANGED <<pc, input, grid3D, distribution, result, calls, nextId, clock>>

\* lines 415-430
NetlifyGetPrediction ==
    \E id \in 1..MaxIds + 1 :
        /\ request' = Event("GET", "/predictions/:id", NoRawBody, id)
        /\ response' =
              IF getPrediction(store, id) = {}
              THEN Reply(404, [ error |-> "Prediction not found" ])
              ELSE Reply(200, store[CHOOSE n \in getPrediction(store, id) : TRUE])
        /\ UNCHANGED <<pc, input, grid3D, distribution, result, store, calls, nextId,
                       clock>>

\* lines 389-391
NetlifyOptions ==
    /\ request' = Event("OPTIONS", "/predict", NoRawBody, 0)
    /\ response' = Reply(204, [ empty |-> TRUE ])
    /\ UNCHANGED <<pc, input, grid3D, distribution, result, store, calls, nextId, clock>>

\* lines 443-447: any other method and path
NetlifyNotFound ==
    /\ request' = Event("GET", "/predict", NoRawBody, 0)
    /\ response' = Reply(404, [ error |-> "Not found" ])
    /\ UNCHANGED <<pc, input, grid3D, distribution, result, store, calls, nextId, clock>>

NetlifyNext ==
    \/ NetlifyPostPredict
    \/ NetlifyGetPredictions
    \/ NetlifyDeletePredictions
    \/ NetlifyGetPrediction
    \/ NetlifyOptions
    \/ NetlifyNotFound
    \/ Tick

SpecNetlify == Init /\ [][NetlifyNext]_vars

IsNetlifyPost(req) == req # NoValue /\ req.method = "POST" /\ req.path = "/predict"

\* the bounds are violated by what the handler reads as the parameters
RawViolatesBounds(raw) ==
    raw.kind \in {"absent", "object"} /\ ViolatesBounds(JsonParse(raw).fields)

\* C11: in the Netlify handler a POST /predict whose body violates the bounds
\* of ProcessParameters (an empty or field-less body included) is answered with
\* a validation error: the engine does not run and the predictions map is left
\* as it was.
C11_NetlifyRejectsInvalidBody ==
    [][ (request' # request /\ IsNetlifyPost(request') /\ RawViolatesBounds(request'.body))
        => /\ response'.status = 400
           /\ calls' = calls
           /\ store' = store ]_vars

\* the keys of a PredictionResult
PredictionKeys ==
    { "id", "timestamp", "parameters", "radicalDistribution", "qualityMetrics",
      "roiMetrics", "stabilityTimeSeries", "status", "recommendations" }

\* C12: generatePrediction on validated parameters returns a PredictionResult
\* (the route never answers 500), leaves the parameters it was given as they
\* were, and the store changes only by the route's savePrediction adding exactly
\* that result (or by a clear).
C12_PredictionIsPureAndSavedOnce ==
    [][ /\ IsPostPredict(request') => response'.status \in {200, 400}
        /\ calls' # calls =>
              /\ calls' = calls + 1
              /\ IsPostPredict(request')
              /\ ~ViolatesBounds(request'.body)
              /\ response'.status = 200
              /\ DOMAIN response'.json = PredictionKeys
              /\ response'.json.parameters = Parse(request'.body)
              /\ store' = Append(store, response'.json)
        /\ store' # store =>
              \/ calls' # calls
              \/ (request'.method = "DELETE" /\ store' = <<>>) ]_vars

\* a second prediction was made and saved behind the first
C12_Witness ==
    /\ IsPostPredict(request)
    /\ response.status = 200
    /\ calls = 2
    /\ Len(store) = 2
    /\ store[2] = response.json
    /\ store[1].id # store[2].id

-----------------------------------------------------------------------------
(* MemStorage under arbitrary sequences of its operations                  *)

\* at most MaxOps saves and clears are logged
MaxOps == 3

\* The predictions saved: what the store reads of a PredictionResult (id and
\* timestamp) and its status, which tells two values of one id apart.
StoredPredictions ==
    { [ id |-> id, timestamp |-> timestamp, status |-> status ] :
        id \in 1..2, timestamp \in 0..1, status \in {"safe", "danger"} }

NoPrediction == [ id |-> 0, timestamp |-> 0, status |-> "safe" ]

\* input is the log of the saves and clears so far
StorageInit ==
    /\ pc = "new"
    /\ input = <<>>
    /\ grid3D = NoValue
    /\ distribution = NoValue
    /\ result = <<>>
    /\ store = <<>>
    /\ request = Request("GET", "/api/predictions/:id", EmptyBody, 0)
    /\ response = Reply(404, [ error |-> "Prediction not found" ])
    /\ calls = 0
    /\ nextId = 1
    /\ clock = 0

\* storage.savePrediction(prediction)
StorageSave ==
    \E prediction \in StoredPredictions :
        /\ Len(input) < MaxOps
        /\ store' = savePrediction(store, prediction)
        /\ input' = Append(input, [ op |-> "save", prediction |-> prediction ])
        /\ pc' = "save"
        /\ UNCHANGED <<grid3D, distribution, result, request, response, calls, nextId,
                       clock>>

\* storage.clearPredictions()
StorageClear ==
    /\ Len(input) < MaxOps
    /\ store' = clearPredictions(store)
    /\ input' = Append(input, [ op |-> "clear", prediction |-> NoPrediction ])
    /\ pc' = "clear"
    /\ UNCHANGED <<grid3D, distribution, result, request, response, calls, nextId, clock>>

\* storage.getAllPredictions(), as the route of lines 12-20 calls it
StorageGetAll ==
    /\ result' = getAllPredictions(store)
    /\ pc' = "getAll"
    /\ UNCHANGED <<input, grid3D, distribution, store, request, response, calls, nextId,
                   clock>>

\* the route of lines 23-34 on storage.getPrediction(id)
StorageGet ==
    \E id \in 1..3 :
        /\ request' = Request("GET", "/api/predictions/:id", EmptyBody, id)
        /\ response' =
              IF getPrediction(store, id) = {}
              THEN Reply(404, [ error |-> "Prediction not found" ])
              ELSE Reply(200, store[CHOOSE n \in getPrediction(store, id) : TRUE])
        /\ pc' = "get"
        /\ UNCHANGED <<input, grid3D, distribution, result, store, calls, nextId, clock>>

StorageNext ==
    \/ StorageSave
    \/ StorageClear
    \/ StorageGetAll
    \/ StorageGet

SpecStorage == StorageInit /\ [][StorageNext]_vars

\* the positions of the log after the most recent clear
SinceClear(log) ==
    { n \in 1..Len(log) : \A m \in n..Len(log) : log[m].op = "save" }

\* the positions holding the last save of their id since the most recent clear
LastSaves(log) ==
    { n \in SinceClear(log) :
        \A m \in SinceClear(log) : log[m].prediction.id = log[n].prediction.id => m <= n }

\* C13: getAllPredictions returns exactly the predictions saved since the most
\* recent clear, one per id and the last value saved for it, timestamps
\* non-increasing; it returns the empty list right after a clear.
C13_ListIsLastSavedNewestFirst ==
    pc = "getAll" =>
        /\ { result[n] : n \in 1..Len(result) } = { input[n].prediction : n \in LastSaves(input) }
        /\ Len(result) = Cardinality(LastSaves(input))
        /\ \A a \in 1..Len(result), b \in 1..Len(result) :
              a < b => result[a].timestamp >= result[b].timestamp
        /\ (input # <<>> /\ input[Len(input)].op = "clear") => result = <<>>

\* an id saved twice with another, newer one saved in between: the list is the
\* store in another order
C13_Witness ==
    /\ pc = "getAll"
    /\ Len(input) = 3
    /\ input[1].op = "save"
    /\ input[3].op = "save"
    /\ input[1].prediction.id = input[3].prediction.id
    /\ input[1].prediction # input[3].prediction
    /\ Len(result) = 2
    /\ result # store

\* C14: GET /api/predictions/:id answers with the prediction last saved under
\* the id since the most recent clear, and 404 'Prediction not found' when there
\* is none; the prediction returned has the requested id and the store is not
\* modified.
C14_GetByIdIsLastSaved ==
    [][ pc' = "get" =>
          /\ store' = store
          /\ IF \E n \in LastSaves(input) : input[n].prediction.id = request'.id
             THEN /\ response'.status = 200
                  /\ response'.json.id = request'.id
                  /\ \E n \in LastSaves(input) : input[n].prediction = response'.json
             ELSE /\ response'.status = 404
                  /\ response'.json.error = "Prediction not found" ]_vars

\* the id asked for was saved twice; another id is stored in front of it
C14_Witness ==
    /\ pc = "get"
    /\ response.status = 200
    /\ Len(store) = 2
    /\ store[1].id # request.id
    /\ Cardinality({ n \in SinceClear(input) : input[n].prediction.id = request.id }) = 2

-----------------------------------------------------------------------------
(* Concurrent POST /api/predict requests                                   *)

\* the number of requests in flight
NumRequests == 2
Requests == 1..NumRequests

\* Request i posts the valid body ValidBodies[input[i]]. pc[i] is the position
\* of its handler: "pending" before it has run, "awaiting" at the await of line
\* 41 (savePrediction has run, the reply is not sent), "done" after res.json.
\* result[i] is the handler's local prediction, response[i] the reply sent.
ConcurrentInit ==
    /\ pc = [ i \in Requests |-> "pending" ]
    /\ input \in [ Requests -> 1..Len(ValidBodies) ]
    /\ grid3D = NoValue
    /\ distribution = NoValue
    /\ result = [ i \in Requests |-> NoValue ]
    /\ store = <<>>
    /\ request = NoValue
    /\ response = [ i \in Requests |-> NoValue ]
    /\ calls = 0
    /\ nextId = 1
    /\ clock = 0

\* lines 39-41 up to the await: parse, generatePrediction, savePrediction
HandlePost ==
    \E i \in Requests :
        /\ pc[i] = "pending"
        /\ Valid(Bodies[input[i]])
        /\ \E rnd \in ServerRnds :
              LET prediction ==
                      AssemblePrediction(Parse(Bodies[input[i]]), Simulated[input[i]],
                                         rnd, nextId, clock)
              IN /\ store' = savePrediction(store, prediction)
                 /\ result' = [ result EXCEPT ![i] = prediction ]
        /\ pc' = [ pc EXCEPT ![i] = "awaiting" ]
        /\ calls' = calls + 1
        /\ nextId' = nextId + 1
        /\ UNCHANGED <<input, grid3D, distribution, request, response, clock>>

\* line 42, after the await: res.json(prediction)
Respond ==
    \E i \in Requests :
        /\ pc[i] = "awaiting"
        /\ response' = [ response EXCEPT ![i] = Reply(200, result[i]) ]
        /\ pc' = [ pc EXCEPT ![i] = "done" ]
        /\ UNCHANGED <<input, grid3D, distribution, result, store, request, calls,
                       nextId, clock>>

ConcurrentNext ==
    \/ HandlePost
    \/ Respond
    \/ Tick

SpecConcurrent == ConcurrentInit /\ [][ConcurrentNext]_vars

AllDone == \A i \in Requests : pc[i] = "done"

\* C15: for every interleaving of the concurrent valid POSTs, once all have
\* completed each has received a PredictionResult of its own (for its own
\* parameters, under an id no other has) and the store holds exactly these
\* results, none lost or overwritten.
C15_ConcurrentPostsAllStored ==
    AllDone =>
        /\ \A i \in Requests :
              /\ response[i].status = 200
              /\ response[i].json.parameters = Parse(ValidBodies[input[i]])
              /\ \A j \in Requests : i # j => response[i].json.id # response[j].json.id
              /\ \E n \in 1..Len(store) : store[n] = response[i].json
        /\ Len(store) = NumRequests

\* both requests are answered; the second was handled first
C15_Witness ==
    /\ AllDone
    /\ input[1] # input[2]
    /\ Len(store) >= 2
    /\ store[1] = result[2]
    /\ store[2] = result[1]

-----------------------------------------------------------------------------
(* predictQualityMetrics on simulated distributions, over a fine set of     *)
(* Math.random() draws                                                     *)

DrawSteps == 100

\* the draws of lines 287 and 303: Math.random() is in [0, 1)
QualityDraws == { (k * Scale) \div DrawSteps : k \in 0..DrawSteps - 1 } \cup { Scale - 1 }

\* valid parameters: an aged chamber at full power, one close to the
\* low/medium threshold of the risk, and a pulsed 100 W at 60 mTorr without
\* gas, whose density stays at the floor everywhere
QualityParams ==
    << EngineParams[2],
       EngineParams[7],
       WithOptional(Params(100, 60, 0, 0, 0, TRUE, 60), 10, 100, 0) >>

\* the distribution predictQualityMetrics is called with (lines 586-587)
QualityDistribution ==
    [ n \in 1..Len(QualityParams) |->
        simulateRadicalDistribution(QualityParams[n], MidNoise) ]

QualityInit ==
    \E n \in 1..Len(QualityParams) :
        Idle([ params |-> QualityParams[n], base |-> n ])

PredictQualityMetrics ==
    /\ pc = "idle"
    /\ \E r1 \in QualityDraws, r2 \in QualityDraws :
          result' = predictQualityMetrics(input.params, QualityDistribution[input.base],
                                          r1, r2)
    /\ pc' = "done"
    /\ UNCHANGED <<input, grid3D, distribution, store, request, response, calls,
                   nextId, clock>>

QualityNext == PredictQualityMetrics

SpecQuality == QualityInit /\ [][QualityNext]_vars

\* C16: for every valid ProcessParameters and every noise draw the returned
\* QualityMetrics have etchUniformity in [50, 99.5], defectRiskScore in
\* [0, 100] and defectRisk one of low, medium, high.
C16_MetricsWithinRanges ==
    pc = "done" =>
        /\ result.metrics.etchUniformity >= 50 * Scale
        /\ result.metrics.etchUniformity <= Milli(99500)
        /\ result.metrics.defectRiskScore >= 0
        /\ result.metrics.defectRiskScore <= 100 * Scale
        /\ result.metrics.defectRisk \in {"low", "medium", "high"}

\* the clamp of the risk has acted: the sum of the penalties is above 100
C16_Witness ==
    /\ pc = "done"
    /\ result.metrics.defectRiskScore = 100 * Scale
    /\ result.metrics.etchUniformity = 50 * Scale
    /\ result.metrics.defectRisk = "high"
    /\ \E r2 \in QualityDraws :
          RiskScoreUnclamped(input.params, QualityDistribution[input.base], r2)
              > 100 * Scale

\* C18: in every returned QualityMetrics the category defectRisk agrees with
\* the returned defectRiskScore: low iff the score is below 25, medium iff it
\* is at least 25 and below 55, high iff it is at least 55.
C18_RiskCategoryFollowsReturnedScore ==
    pc = "done" =>
        LET score == result.metrics.defectRiskScore
            defectRisk == result.metrics.defectRisk
        IN /\ defectRisk = "low" <=> score < 25 * Scale
           /\ defectRisk = "medium" <=> (score >= 25 * Scale /\ score < 55 * Scale)
           /\ defectRisk = "high" <=> score >= 55 * Scale

-----------------------------------------------------------------------------
(* Repeated runs of simulateRadicalDistribution on the same parameters      *)

MaxRuns == 4

\* the parameters of the runs
RunParams == << EngineParams[6] >>

\* the outcomes of the Math.random() draws of line 178 the runs see: the
\* centre and top cells, and the edge and bottom cells, each at one end of
\* [0, 1)
RunNoise ==
    { noise \in NoiseFields : /\ noise.center \in {0, Scale - 1}
                              /\ noise.edge \in {0, Scale - 1} }

\* what simulateRadicalDistribution returns for each record and each of these
\* outcomes
RunDistribution ==
    [ n \in 1..Len(RunParams) |->
        [ noise \in RunNoise |-> simulateRadicalDistribution(RunParams[n], noise) ] ]

\* the six scalar descriptors of the returned record (lines 228-233)
SixDescriptors(d) ==
    [ centerEdgeRatio |-> d.centerEdgeRatio,
      topBottomGradient |-> d.topBottomGradient,
      highEnergyFraction |-> d.highEnergyFraction,
      residenceTimeIndex |-> d.residenceTimeIndex,
      verticalUniformity |-> d.verticalUniformity,
      wallLossFactor |-> d.wallLossFactor ]

\* no run yet; result collects the runs with the draws each one saw
RunsInit ==
    /\ pc = "idle"
    /\ \E n \in 1..Len(RunParams) : input = [ params |-> RunParams[n], base |-> n ]
    /\ grid3D = NoValue
    /\ distribution = NoValue
    /\ result = <<>>
    /\ store = <<>>
    /\ request = NoValue
    /\ response = NoValue
    /\ calls = 0
    /\ nextId = 1
    /\ clock = 0

\* one more call simulateRadicalDistribution(params)
SimulateRadicalDistribution ==
    /\ calls < MaxRuns
    /\ \E noise \in RunNoise :
          /\ distribution' = SixDescriptors(RunDistribution[input.base][noise])
          /\ result' = Append(result, [ noise |-> noise, distribution |-> distribution' ])
    /\ pc' = "ran"
    /\ calls' = calls + 1
    /\ UNCHANGED <<input, grid3D, store, request, response, nextId, clock>>

RunsNext == SimulateRadicalDistribution

SpecRuns == RunsInit /\ [][RunsNext]_vars

\* C17: two runs of simulateRadicalDistribution on the same parameters give
\* the same highEnergyFraction and residenceTimeIndex whatever the noise
\* draws are, and the same six descriptors when the draws are the same.
C17_RunsAgreeUpToNoise ==
    \A i \in 1..Len(result), j \in 1..Len(result) :
        /\ result[i].distribution.highEnergyFraction
               = result[j].distribution.highEnergyFraction
        /\ result[i].distribution.residenceTimeIndex
               = result[j].distribution.residenceTimeIndex
        /\ result[i].noise = result[j].noise
               => result[i].distribution = result[j].distribution

\* the first two runs saw the same draws, the third saw other draws and
\* returned another centerEdgeRatio and another topBottomGradient
C17_Witness ==
    /\ Len(result) >= 3
    /\ result[1].noise = result[2].noise
    /\ result[1].distribution = result[2].distribution
    /\ result[3].noise # result[1].noise
    /\ result[3].distribution.centerEdgeRatio # result[1].distribution.centerEdgeRatio
    /\ result[3].distribution.topBottomGradient # result[1].distribution.topBottomGradient
    /\ result[3].distribution.highEnergyFraction = result[1].distribution.highEnergyFraction

-----------------------------------------------------------------------------
(* The direction and the order of the recommendations (SpecRecs)           *)

\* the parameters a recommendation raises, and those it lowers
Raised == {"Pressure", "Ar Flow", "O2 Flow", "Pulse Mode"}
Lowered == {"RF Power", "CF4 Flow"}

PointsTheRightWay(rec) ==
    /\ rec.recommendedValue # rec.currentValue
    /\ rec.parameter \in Raised \cup Lowered
    /\ rec.parameter \in Raised => rec.recommendedValue > rec.currentValue
    /\ rec.parameter \in Lowered => rec.recommendedValue < rec.currentValue

\* C19: for every valid input no recommendation is a no-op or points the
\* wrong way: the recommended value is above the current one for Pressure,
\* Ar Flow, O2 Flow and Pulse Mode and below it for RF Power and CF4 Flow,
\* also in the CD-shift RF Power branch, whose only guard is
\* highEnergyFraction > 0.35.
C19_RecommendationsPointTheRightWay ==
    Done =>
        /\ \A n \in 1..Len(result) : PointsTheRightWay(result[n])
        /\ input.status # "safe" =>
              LET pushed == Triggered(input.params, input.distribution, input.metrics)
              IN \A n \in 1..Len(pushed) : PointsTheRightWay(pushed[n])

\* the CD-shift RF Power branch has fired at the lowest power of the inputs
\* that passes its guard, next to a recommendation that raises a parameter
\* up to its cap
C19_Witness ==
    /\ Done
    /\ input.params.rfPower = 1100
    /\ \E n \in 1..Len(result) :
          /\ result[n].reason = "cdPower"
          /\ result[n].recommendedValue = 950
    /\ \E n \in 1..Len(result) :
          /\ result[n].reason = "riskPressure"
          /\ result[n].currentValue = 5
          /\ result[n].recommendedValue = 13

\* the pushes of the run: none when the status is safe (line 339)
Pushed ==
    IF input.status = "safe" THEN <<>>
    ELSE Triggered(input.params, input.distribution, input.metrics)

\* the tier of a priority: high before medium before low
Tier(priority) == IF priority = "high" THEN 0 ELSE IF priority = "medium" THEN 1 ELSE 2

\* the push at position a goes before the push at position b in the stable
\* sort: a higher tier, or the same tier and pushed earlier
GoesBefore(a, b) ==
    \/ Tier(Pushed[a].priority) < Tier(Pushed[b].priority)
    \/ /\ Tier(Pushed[a].priority) = Tier(Pushed[b].priority)
       /\ a < b

\* C20: the returned list is the first 3 elements (all, if fewer) of the
\* stable priority sort of the pushes taken in trigger order: it holds
\* min(3, pushes) of the pushes, each once, a higher tier first and within a
\* tier in trigger order, and every dropped push goes after every kept one.
C20_FirstThreeOfStableSort ==
    Done =>
        /\ Len(result) = Min(3, Len(Pushed))
        /\ \E at \in [1..Len(result) -> 1..Len(Pushed)] :
              /\ \A n \in 1..Len(result) : result[n] = Pushed[at[n]]
              /\ \A n \in 1..Len(result) - 1 : GoesBefore(at[n], at[n + 1])
              /\ \A dropped \in 1..Len(Pushed) :
                    (\A n \in 1..Len(result) : at[n] # dropped)
                        => \A n \in 1..Len(result) : GoesBefore(at[n], dropped)

\* all nine branches have pushed: the three kept are the first three high
\* ones in trigger order, the fourth high one and the medium one pushed
\* before two of them are dropped
C20_Witness ==
    /\ Done
    /\ Len(Pushed) = 9
    /\ Pushed[3].priority = "medium"
    /\ Pushed[7].priority = "high"
    /\ result = << Pushed[1], Pushed[2], Pushed[5] >>

-----------------------------------------------------------------------------
(* The loss reduction and the profit of calculateRoiMetrics (SpecRoi)      *)

\* the shortfall of the returned profit against the profit of 24 good wafers
\* out of 25 (98% yield): 24 * 200 - 25 * 150 = 1050 USD
Shortfall == 1050 - result.estimatedBatchProfit

\* C21 as stated: potentialLossReduction is 0 when the status is safe, the
\* whole shortfall against the profit at 98% yield when it is danger and
\* exactly half of that shortfall when it is warning; it is never negative
\* and is strictly positive for warning and danger.
C21_LossReductionIsShareOfShortfall ==
    Done =>
        /\ input.status = "safe" => result.potentialLossReduction = 0
        /\ input.status = "danger" => result.potentialLossReduction = Shortfall
        /\ input.status = "warning" => 2 * result.potentialLossReduction = Shortfall
        /\ result.potentialLossReduction >= 0
        /\ input.status # "safe" => result.potentialLossReduction > 0

\* C21 as the code has it: for warning the returned value is half of the
\* shortfall rounded to whole dollars, a half rounding up (toFixed(0) of line
\* 578); the rest is as stated.
C21_LossReductionIsRoundedShare ==
    Done =>
        /\ input.status = "safe" => result.potentialLossReduction = 0
        /\ input.status = "danger" => result.potentialLossReduction = Shortfall
        /\ input.status = "warning" =>
              /\ 2 * result.potentialLossReduction >= Shortfall
              /\ 2 * result.potentialLossReduction <= Shortfall + 1
        /\ result.potentialLossReduction >= 0
        /\ input.status # "safe" => result.potentialLossReduction > 0

\* a warning whose shortfall is an odd amount of dollars: 14 good wafers
C21_Witness ==
    /\ Done
    /\ input.status = "warning"
    /\ result.estimatedBatchProfit = 14 * 275 - 5625
    /\ Shortfall = 2825
    /\ result.potentialLossReduction = 1413

-----------------------------------------------------------------------------
(* The divisors of the engine (SpecEngine)                                 *)

\* C22: for every valid ProcessParameters and every noise draw the divisors
\* of the engine are non-zero: pressureFactor is positive, the mid-height
\* edge average, the bottom-layer mean, the 3D mean and the centre-column
\* average are at least 0.05, and numPoints - 1 is at least 2 in the
\* stability generator.
C22_DivisorsNonZero ==
    Done =>
        /\ pressureFactor(input.params) > 0
        /\ avgEdge(grid3D) >= Milli(50)
        /\ avgBottom(grid3D) >= Milli(50)
        /\ mean3D(grid3D) >= Milli(50)
        /\ centerAvg(grid3D) >= Milli(50)
        /\ numPoints(input.params) - 1 >= 2
        /\ Len(result.stabilityTimeSeries) - 1 >= 2

\* the smallest divisors: pressure 1 mTorr, a grid at the floor everywhere
\* and a process time of 10 s (three samples)
C22_Witness ==
    /\ Done
    /\ input.params.pressure = 1
    /\ pressureFactor(input.params) = Scale \div 50
    /\ avgEdge(grid3D) = Milli(50)
    /\ avgBottom(grid3D) = Milli(50)
    /\ mean3D(grid3D) = Milli(50)
    /\ centerAvg(grid3D) = Milli(50)
    /\ Len(result.stabilityTimeSeries) = 3

-----------------------------------------------------------------------------
(* The samples of the stability time series (SpecStability)                *)

\* the series of the run when every Math.random() draw of line 518 is 0.5,
\* which makes the noise 0
NoiselessSeries ==
    generateStabilityTimeSeries(input.params, StabilityDistribution[input.base],
                                StabilityMetrics[input.base],
                                <<Scale \div 2, Scale \div 2>>)

\* C23: with the noise disabled the temperature of the stability time series
\* is non-decreasing in sample time over the whole series (ramp-up, steady
\* state and stabilization), for every valid processTime.
C23_TemperatureNonDecreasing ==
    (Done /\ result = NoiselessSeries) =>
        \A i \in 1..Len(result) - 1 : result[i].temperature <= result[i + 1].temperature

\* C24: every sample of every stability time series has uniformity in
\* [50, 100] and temperature in [0, 1], for all valid inputs and noise draws.
C24_SamplesWithinRanges ==
    Done =>
        \A i \in 1..Len(result) :
            /\ result[i].uniformity >= 50 * Scale
            /\ result[i].uniformity <= 100 * Scale
            /\ result[i].temperature >= 0
            /\ result[i].temperature <= Scale

\* a series on a base uniformity under 55: the ramp-up takes 5 off at time 0
\* and the clamp brings the sample back to 50
C24_Witness ==
    /\ Done
    /\ StabilityMetrics[input.base].etchUniformity < 55 * Scale
    /\ result[1].time = 0
    /\ result[1].uniformity = 50 * Scale
    /\ result[1].temperature > 0
    /\ result[Len(result)].temperature < Scale

-----------------------------------------------------------------------------
(* The 2D slice of the simulator (SpecEngine)                              *)

\* C25: in every RadicalDistribution returned by the 3D simulator the 2D
\* slice grid is cell-for-cell equal to layer 5 of grid3D, and
\* centerEdgeRatio is computed from that same layer (its centre cell over the
\* mean of its four mid-edge cells, to 3 decimals).
C25_SliceIsMidLayer ==
    Done =>
        LET slice == distribution.grid
            edge == RoundDiv(slice[0][10] + slice[19][10] + slice[10][0] + slice[10][19], 4)
        IN /\ DOMAIN slice = 0..19
           /\ \A i \in 0..19 :
                 /\ DOMAIN slice[i] = 0..19
                 /\ \A j \in 0..19 : slice[i][j] = distribution.grid3D[5][i][j]
           /\ distribution.centerEdgeRatio = ToFixed(Div(slice[10][10], edge), 3)
           /\ result.radicalDistribution = distribution

\* a grid whose layers differ, with a centre denser than the edge
C25_Witness ==
    /\ Done
    /\ distribution.grid = grid3D[5]
    /\ distribution.grid # grid3D[4]
    /\ distribution.grid # grid3D[6]
    /\ distribution.grid # grid3D[9]
    /\ distribution.centerEdgeRatio > Scale

-----------------------------------------------------------------------------
(* The profit on the metrics the predictor returns (SpecRoi)               *)

\* C26: for every QualityMetrics the predictor can produce (etchUniformity
\* at most 99.5) calculateRoiMetrics returns a yieldRate of at most 79.6,
\* hence at most 19 good wafers of 25 and an estimatedBatchProfit of at most
\* -400: the estimated profit is negative also when the status is safe.
C26_ProfitAlwaysNegative ==
    (Done /\ input.metrics.etchUniformity <= Milli(99500)) =>
        /\ result.yieldRate <= Milli(79600)
        /\ \E good \in 0..19 :
              result.estimatedBatchProfit = good * 200 - 25 * 150 - (25 - good) * 75
        /\ result.estimatedBatchProfit <= -400
        /\ result.estimatedBatchProfit < 0

\* the best metrics the predictor returns, with status safe
C26_Witness ==
    /\ Done
    /\ input.status = "safe"
    /\ input.metrics.etchUniformity = Milli(99500)
    /\ input.metrics.cdShift = 0
    /\ input.metrics.defectRisk = "low"
    /\ result.yieldRate = Milli(79600)
    /\ result.estimatedBatchProfit = -400

-----------------------------------------------------------------------------
(* The parameters named by the returned recommendations (SpecEngine)       *)

\* C27: the list returned by generateRecommendations never contains two
\* recommendations with the same parameter name.
C27_OneRecommendationPerParameter ==
    (Done /\ result.recommendations.defined) =>
        \A a \in 1..Len(result.recommendations.value),
           b \in 1..Len(result.recommendations.value) :
            a # b => result.recommendations.value[a].parameter
                       # result.recommendations.value[b].parameter

-----------------------------------------------------------------------------
(* predictQualityMetrics over descriptors on both sides of its thresholds   *)

\* pressure at both ends of its range and at the threshold of line 272, power
\* at both ends, pulse on and off
PredictParams ==
    { Params(rfPower, pressure, 80, 20, 50, pulseEnabled, 120) :
        rfPower \in {100, 2000}, pressure \in {1, 60, 100}, pulseEnabled \in BOOLEAN }

\* the descriptors predictQualityMetrics reads: centerEdgeRatio at, just above
\* and far above 1.5, topBottomGradient below, at and above 1, and the
\* highEnergyFraction of p
PredictDescriptors(p) ==
    { [ centerEdgeRatio |-> cer, topBottomGradient |-> tbg,
        highEnergyFraction |-> highEnergyFraction(p) ] :
        cer \in {Scale, Milli(1500), Milli(1501), Milli(1600), Milli(3000)},
        tbg \in {Milli(500), Scale, Milli(3000)} }

PredictInit ==
    \E p \in PredictParams : \E d \in PredictDescriptors(p) :
        Idle([ params |-> p, distribution |-> d ])

PredictOnDescriptors ==
    /\ pc = "idle"
    /\ \E r1 \in Draws, r2 \in Draws :
          result' = predictQualityMetrics(input.params, input.distribution, r1, r2)
    /\ pc' = "done"
    /\ UNCHANGED <<input, grid3D, distribution, store, request, response, calls,
                   nextId, clock>>

SpecPredict == PredictInit /\ [][PredictOnDescriptors]_vars

\* C28: whenever centerEdgeRatio is above 1.5 and pulseEnabled is false the
\* status is never safe, for every topBottomGradient, pressure and noise
\* draw.
C28_HighRatioWithoutPulseNeverSafe ==
    (Done /\ input.distribution.centerEdgeRatio > Milli(1500) /\ ~input.params.pulseEnabled)
        => result.status # "safe"

\* the most favourable such input: a ratio of 1.501 on a flat gradient at
\* 60 mTorr, low risk and a small cdShift, which comes out as a warning
C28_Witness ==
    /\ Done
    /\ input.distribution.centerEdgeRatio = Milli(1501)
    /\ input.distribution.topBottomGradient = Scale
    /\ ~input.params.pulseEnabled
    /\ input.params.pressure = 60
    /\ result.metrics.defectRisk = "low"
    /\ Abs(result.metrics.cdShift) <= 2 * Scale
    /\ result.metrics.etchUniformity = Milli(92500)
    /\ result.status = "warning"

-----------------------------------------------------------------------------
(* The dashboard against the server: predict and clear-history requests    *)
(* with their responses in flight                                          *)

MaxClicks == 3

\* a request on its way to the server; n tells the clicks apart (the refetch
\* of the history query is one request however often it is invalidated)
ToServer(kind, n) == [ kind |-> kind, n |-> n ]

\* a response on its way to the dashboard
ToClient(kind, n, id, list) == [ kind |-> kind, n |-> n, id |-> id, list |-> list ]

\* queryClient.invalidateQueries({ queryKey: ["/api/predictions"] })
Refetch == ToServer("GET", 0)

\* the dashboard is mounted on an empty history: currentPrediction (result)
\* is null, the history query (input) holds no prediction, nothing in flight;
\* pc tells whether a row of the history list has been selected since
DashboardInit ==
    /\ pc = "mounted"
    /\ input = <<>>
    /\ grid3D = NoValue
    /\ distribution = NoValue
    /\ result = NoValue
    /\ store = <<>>
    /\ request = {}
    /\ response = {}
    /\ calls = 0
    /\ nextId = 1
    /\ clock = 0

\* handleSubmit: predictionMutation.mutate(params) sends POST /api/predict
HandleSubmit ==
    /\ calls < MaxClicks
    /\ calls' = calls + 1
    /\ request' = request \cup { ToServer("POST", calls') }
    /\ UNCHANGED <<pc, input, grid3D, distribution, result, store, response, nextId, clock>>

\* handleClearHistory up to its await: the button is rendered while the
\* history query holds a prediction; sends DELETE /api/predictions
HandleClearHistory ==
    /\ calls < MaxClicks
    /\ Len(input) > 0
    /\ calls' = calls + 1
    /\ request' = request \cup { ToServer("DELETE", calls') }
    /\ UNCHANGED <<pc, input, grid3D, distribution, result, store, response, nextId, clock>>

\* the server handles one of the requests in flight: POST /api/predict saves
\* a prediction with a fresh id and answers with it, DELETE /api/predictions
\* empties the store, GET /api/predictions answers with the stored ones
Serve ==
    \E req \in request :
        /\ request' = request \ {req}
        /\ \/ /\ req.kind = "POST"
              /\ store' = Append(store, nextId)
              /\ nextId' = nextId + 1
              /\ response' = response \cup { ToClient("POST", req.n, nextId, <<>>) }
           \/ /\ req.kind = "DELETE"
              /\ store' = <<>>
              /\ nextId' = nextId
              /\ response' = response \cup { ToClient("DELETE", req.n, 0, <<>>) }
           \/ /\ req.kind = "GET"
              /\ store' = store
              /\ nextId' = nextId
              /\ response' = response \cup { ToClient("GET", req.n, 0, store) }
        /\ UNCHANGED <<pc, input, grid3D, distribution, result, calls, clock>>

\* onSuccess of the mutation: setCurrentPrediction(result), then the
\* history query is invalidated
OnSuccess ==
    \E res \in response :
        /\ res.kind = "POST"
        /\ response' = response \ {res}
        /\ result' = [ id |-> res.id ]
        /\ request' = request \cup { Refetch }
        /\ UNCHANGED <<pc, input, grid3D, distribution, store, calls, nextId, clock>>

\* handleClearHistory after its await: the history query is invalidated and
\* setCurrentPrediction(null)
ClearHistoryDone ==
    \E res \in response :
        /\ res.kind = "DELETE"
        /\ response' = response \ {res}
        /\ result' = NoValue
        /\ request' = request \cup { Refetch }
        /\ UNCHANGED <<pc, input, grid3D, distribution, store, calls, nextId, clock>>

\* the history query receives its data
QueryData ==
    \E res \in response :
        /\ res.kind = "GET"
        /\ response' = response \ {res}
        /\ input' = res.list
        /\ UNCHANGED <<pc, grid3D, distribution, result, store, request, calls, nextId, clock>>

\* handleSelectPrediction: a row of the history list becomes the
\* current prediction; no request is sent
HandleSelectPrediction ==
    \E n \in 1..Len(input) :
        /\ result' = [ id |-> input[n] ]
        /\ pc' = "selected"
        /\ UNCHANGED <<input, grid3D, distribution, store, request, response, calls, nextId, clock>>

DashboardNext ==
    \/ HandleSubmit
    \/ HandleClearHistory
    \/ HandleSelectPrediction
    \/ Serve
    \/ OnSuccess
    \/ ClearHistoryDone
    \/ QueryData

SpecDashboard == DashboardInit /\ [][DashboardNext]_vars

\* C29: for every interleaving of predict and clear-history requests and
\* their responses (no row of the history list has been selected), whenever
\* no request is in flight and currentPrediction is non-null, the server
\* store contains a prediction with currentPrediction's id.
C29_ShownPredictionIsStored ==
    (pc = "mounted" /\ request = {} /\ response = {} /\ result # NoValue) =>
        \E n \in 1..Len(store) : store[n] = result.id

-----------------------------------------------------------------------------
(* The sample times of the stability series                                *)

\* what two sample times may differ from their exact values by: i / (n - 1)
\* is held to six decimals and is multiplied by processTime
TimeSlack(p) == 2 * p.processTime + 2

\* C30: for every processTime in [10, 600] the sample times (before the
\* 1-decimal rounding) are strictly increasing and evenly spaced, the spacing
\* processTime / (numPoints - 1) is at least 5 seconds, and every sample
\* time lies in [0, processTime].
C30_SampleTimesEvenlySpaced ==
    Done =>
        LET p == input.params
            n == Len(result)
            time(i) == sampleTime(p, n, i - 1)
            spacing == (p.processTime * Scale) \div (n - 1)
        IN /\ n >= 2
           /\ p.processTime >= 5 * (n - 1)
           /\ \A i \in 1..n :
                 /\ result[i].time = ToFixed(time(i), 1)
                 /\ 0 <= time(i)
                 /\ time(i) <= p.processTime * Scale
           /\ \A i \in 1..(n - 1) :
                 /\ time(i) < time(i + 1)
                 /\ time(i + 1) - time(i) - spacing <= TimeSlack(p)
                 /\ spacing - (time(i + 1) - time(i)) <= TimeSlack(p)

\* 60 samples over 299 seconds: 5.0678 seconds apart, returned as 5.1
C30_Witness ==
    /\ Done
    /\ input.params.processTime = 299
    /\ Len(result) = 60
    /\ result[2].time = 5100000
    /\ sampleTime(input.params, 60, 1) > 5067000
    /\ sampleTime(input.params, 60, 1) < 5068000
====
